---- MODULE Spec2Model ----
(***************************************************************************)
(* A model of the CAIDA dnscrawler resolver engine.                        *)
(*                                                                         *)
(*   Spec        the query engine: PyDNS.query / dns_request /             *)
(*               send_request with the LRU cache, the in-flight            *)
(*               coalescer, the global semaphore, the blocked set and the  *)
(*               per-nameserver rate limiters (pydns.py, lrucache.py,      *)
(*               ratelimiter.py)                                           *)
(*   LimiterSpec one RateLimiter against a clock (ratelimiter.py)          *)
(*   WalkerSpec  DNSResolver.get_host_dependencies / map_name /            *)
(*               _parse_records over a table of zones (dnsresolver.py)     *)
(*                                                                         *)
(* asyncio runs every coroutine on one thread: a step of the model is the  *)
(* code a task runs between two suspension points.                         *)
(***************************************************************************)
EXTENDS Integers, Sequences, FiniteSets, TLC

\* ------------------------------------------------------------------------
\* Bounds of the model and configuration values
\* ------------------------------------------------------------------------

\* number of calls of PyDNS.query
NumCallers == 3

\* constants.MAX_CACHED_QUERIES: capacity of the query cache
MAX_CACHED_QUERIES == 1

\* the largest MAX_CONCURRENT_REQUESTS (size of the global semaphore) an
\* engine is configured with
MaxPermits == 2

\* constants.MAX_REQUESTS_PER_NAMESERVER_SECOND: max_actions of a limiter
MAX_REQUESTS_PER_NAMESERVER_SECOND == 2

\* constants.REQUEST_RETRIES
REQUEST_RETRIES == 0

Callers == 1..NumCallers

Domains == {"d1", "d2"}

Nameservers == {"n1"}

\* the record_types tuples a caller may pass to query
RecordTypeChoices == {<<"NS">>}

MaxTypes == 1

\* a request of the leader of a query: <<caller, position in record_types>>
Reqs == Callers \X (1..MaxTypes)

NoKey == <<>>

\* Python None, as the value of a query or of a cache lookup
NoneValue == [none |-> TRUE]

\* rcodes
NOERROR == 0

NXDOMAIN == 3

\* the value of rcodes["timeout"] (Python True, which equals 1)
PyTrue == 1

\* the "rcode" of the response send_request starts with: the string "timeout",
\* which differs from every rcode a nameserver returns
TimeoutRcode == -1

VARIABLES
    \* ---- PyDNS
    MAX_CONCURRENT_REQUESTS,  \* the attribute PyDNS.__init__ copies from constants
    query_cache,          \* LRUCache.cache: sequence of <<key, value>>, least recent first
    active_queries,       \* keys with an unset asyncio.Event
    timeout_nameservers,  \* the blocked set
    active_requests,      \* nameserver -> sequence of request tasks [req, att]
    requests_sent,        \* PyDNS.requests_sent
    sem,                  \* concurrent_request_limiter._value
    limiter,              \* nameserver_ratelimiters: nameserver -> RateLimiter state
    \* ---- tasks running PyDNS.query
    qpc,                  \* caller -> "idle" | "lead" | "wait" | "woken" | "done" | "raised"
    qkey,                 \* caller -> the key of its query
    qret,                 \* caller -> the value query returned
    qdirty,               \* caller -> its key was evicted while the call was running
    qrole,                \* caller -> "none" | "hit" | "leader" | "waiter": the branch query took
    \* ---- tasks running ratelimiter.run(send_request(...))
    rpc,                  \* req -> "none" | "rl" | "rlwait" | "sem" | "inflight" | "done" | "raised"
    retries,              \* req -> the retries argument of the current send_request
    cancelled,            \* req -> cancel() was called on its pending query_task
    unwinding,            \* req -> a CancelledError is propagating through its finally blocks
    rresp,                \* req -> response returned by send_request
    \* ---- history
    rsent,                \* req -> number of UDP requests sent for it
    lastRet,              \* key -> value returned by the last call on it that saw no eviction
    \* ---- one RateLimiter and the clock of the event loop
    rl,                   \* the RateLimiter
    now,                  \* loop.time(), in ticks
    resetDue,             \* when the sleep of the pending reset_limit ends
    tpc,                  \* task -> "new" | "rlwait" | "woken" | "admitted"
    admitTime,            \* task -> the time run admitted it
    sinceReset,           \* tasks admitted since the last reset
    reset_tasks,          \* number of reset_limit tasks created and not yet finished
    ratelimit_reset,      \* the waiters of the Event ratelimit_reset, in its order
    suspended,            \* tasks run suspended, in the order of their first suspension
    returned,             \* tasks whose run returned the result of the action
    submitted_by,         \* task -> the task whose action calls run for it (0: none)
    \* ---- DNSResolver
    past_resolutions,     \* name -> NSSet returned by a completed map_name
    active_resolutions,   \* the cycle-detection set
    nameserver_ip,        \* the glue cache: pairs <<hostname, ip>>
    dependencies,         \* the dependencies dict of the crawl: label -> set
    hazardous_domains,    \* dependencies['hazardous_domains']: summaries added, in order
    misconfigured_domains,\* dependencies['misconfigured_domains']: tag -> summaries added
    flags,                \* node flags: <<name, flag or misconfiguration tag>>
    \* ---- the crawl
    zones,                \* what the zones of the network contain
    target,               \* the name passed to get_host_dependencies
    answers,              \* <<domain, ip>> -> the QueryResponse pydns.query returned
    faults,               \* queries answered with something else than the zone data
    stack,                \* the frames of map_name and _parse_records, innermost last
    wresult,              \* "idle" | "running" | "returned" | "raised"
    loops,                \* name -> times map_name entered its two-phase loop for it
    crawls,               \* number of get_host_dependencies calls made on the resolver
    summaries,            \* what the calls that returned gave back, in order
    root_servers,         \* DNSResolver.root_servers, the bootstrap table: pairs <<hostname, ip>>
    \* ---- one LRUCache driven by get and set
    lru,                  \* LRUCache.cache: sequence of <<key, value>>, least recent first
    used,                 \* key -> time of its last successful get or set (0: never)
    clock,                \* number of get and set calls made
    cret,                 \* the last call: what it was, what it returned, what it evicted
    \* ---- the exit of the PyDNS scope
    nameserver_ratelimiters, \* nameserver -> its RateLimiter
    rl_awaitable_list,    \* nameserver -> awaitable_list of its RateLimiter
    awaitable_list,       \* PyDNS.awaitable_list
    awaiting_rps_calc,    \* PyDNS.awaiting_rps_calc
    bg,                   \* task created with create_task -> "pending" | "done" | "failed"
    sreq,                 \* number of requests made
    xpc,                  \* "open" | "exiting" | "closed": where PyDNS.__aexit__ is
    exit_awaitables,      \* what AsyncContextManager.__aexit__ still has to await
    logged,               \* awaitables whose exception __aexit__ logged
    \* ---- Node and NodeList objects
    graph,                \* the heap: Node objects, NodeList objects and their dicts
    gop,                  \* the last NodeList operation: what it was and what it cost
    handles,              \* nodes create_node returned on the root NodeList
    gcount,               \* number of NodeList operations made
    \* ---- one StringReferenceCache driven by set
    ref_cache,            \* its LRUCache.cache: sequence of <<key, object>>
    str_to_reference,     \* string form -> StringReferenceRecord [value, references]
    ref_ops,              \* number of set calls made
    \* ---- two query calls made one after the other on a new PyDNS
    call_args,            \* call -> the arguments of query
    call_responses,       \* record type -> the rcode send_request returns for it
    call_step,            \* number of calls that returned
    call_raw,             \* what dns_request returned to call 1
    call_value,           \* call -> what query returned
    call_cache,           \* query_cache
    call_hit,             \* call 2 was answered from the cache
    \* ---- one pass of the loop of map_name over the responses of a phase
    phase_ip_list,        \* ip_list: <<nameserver, ip>> in the order of the loop
    phase_responses,      \* query_responses: the QueryResponse of each entry
    phase_nameserver_ip,  \* the glue cache
    phase_new_auth_ns,    \* new_auth_ns
    phase_count,          \* the entry of ip_list the loop is at
    phase_cache0,         \* the glue cache when the pass began
    phase_contributed,    \* the <<nameserver, ip>> pairs the responses handled gave
    phase_invalid_ns_record \* misconfigured_domains['invalid_ns_record']: summaries added

qvars == <<query_cache, active_queries, timeout_nameservers, active_requests,
           requests_sent, sem, limiter, qpc, qkey, qret, qdirty, qrole,
           rpc, retries, cancelled, unwinding, rresp, rsent, lastRet>>

\* the variables of the rate limiter run against a clock
lvars == <<rl, now, resetDue, tpc, admitTime, sinceReset, reset_tasks, ratelimit_reset,
           suspended, returned, submitted_by>>

\* the variables of the walker
wvars == <<past_resolutions, active_resolutions, nameserver_ip, dependencies,
           hazardous_domains, misconfigured_domains, flags, zones, target,
           answers, faults, stack, wresult, loops, crawls, summaries>>

\* the variables of the cache driven on its own
cvars == <<lru, used, clock, cret>>

\* the variables of the StringReferenceCache driven on its own
rvars == <<ref_cache, str_to_reference, ref_ops>>

\* the variables of the pass over the responses of a phase
pvars == <<phase_ip_list, phase_responses, phase_nameserver_ip, phase_new_auth_ns,
           phase_count, phase_cache0, phase_contributed, phase_invalid_ns_record>>

\* the variables of the two query calls
kvars == <<call_args, call_responses, call_step, call_raw, call_value, call_cache,
           call_hit>>

\* what no step of the cache driven on its own changes
cframe == <<MAX_CONCURRENT_REQUESTS, root_servers, qvars, lvars, wvars, nameserver_ratelimiters,
            rl_awaitable_list, awaitable_list, awaiting_rps_calc, bg, sreq, xpc,
            exit_awaitables, logged, graph, gop, handles, gcount, rvars, kvars, pvars>>

\* the variables of the exit of the PyDNS scope
svars == <<nameserver_ratelimiters, rl_awaitable_list, awaitable_list,
           awaiting_rps_calc, bg, sreq, xpc, exit_awaitables, logged>>

\* what no step of the exit of the PyDNS scope changes
\* what the NodeList operations driven on their own record
ghost == <<gop, handles, gcount>>

\* the variables of the NodeList operations driven on their own
gvars == <<graph, ghost>>

sframe == <<MAX_CONCURRENT_REQUESTS, root_servers, qvars, lvars, wvars, cvars, gvars, rvars, kvars, pvars>>

vars == <<MAX_CONCURRENT_REQUESTS, root_servers, qvars, lvars, wvars, cvars, svars, gvars, rvars, kvars, pvars>>

\* what no step of the query engine changes
qframe == <<MAX_CONCURRENT_REQUESTS, root_servers, lvars, wvars, cvars, svars, gvars, rvars, kvars, pvars>>

\* what no step of the rate limiter run against a clock changes
lframe == <<MAX_CONCURRENT_REQUESTS, root_servers, qvars, wvars, cvars, svars, gvars, rvars, kvars, pvars>>

\* what no step of the walker changes
wrest == <<MAX_CONCURRENT_REQUESTS, qvars, lvars, cvars, svars, ghost, rvars, kvars, pvars>>

\* what the steps of the walker that write no glue leave alone
wframe == <<wrest, root_servers>>

\* what no step of the NodeList operations driven on their own changes
gframe == <<MAX_CONCURRENT_REQUESTS, root_servers, qvars, lvars, wvars, cvars, svars, rvars, kvars, pvars>>

\* what no step of the StringReferenceCache driven on its own changes
rframe == <<MAX_CONCURRENT_REQUESTS, root_servers, qvars, lvars, wvars, cvars, svars, gvars, kvars, pvars>>

\* what no step of the two query calls changes
kframe == <<MAX_CONCURRENT_REQUESTS, root_servers, qvars, lvars, wvars, cvars, svars, gvars, rvars, pvars>>

\* what no step of the pass over the responses of a phase changes
pframe == <<MAX_CONCURRENT_REQUESTS, root_servers, qvars, lvars, wvars, cvars, svars, gvars, rvars, kvars>>

\* ------------------------------------------------------------------------
\* LRUCache (lrucache.py)
\* ------------------------------------------------------------------------

has(cache, key) == \E i \in 1..Len(cache) : cache[i][1] = key

LookUp(cache, key) == cache[CHOOSE i \in 1..Len(cache) : cache[i][1] = key][2]

\* OrderedDict.move_to_end(key)
move_to_end(cache, key) ==
    LET others(e) == e[1] # key
    IN  SelectSeq(cache, others) \o <<<<key, LookUp(cache, key)>>>>

is_full(cache, capacity) == Len(cache) = capacity

\* OrderedDict.popitem(last=False)
pop(cache) == Tail(cache)

\* self.cache[key] = value: an existing key keeps its position
SetItem(cache, key, value) ==
    IF has(cache, key)
    THEN [i \in 1..Len(cache) |-> IF cache[i][1] = key THEN <<key, value>> ELSE cache[i]]
    ELSE Append(cache, <<key, value>>)

\* LRUCache.get: the value returned (NoneValue on a miss)
LRUCache_get(cache, key) == IF has(cache, key) THEN LookUp(cache, key) ELSE NoneValue

\* LRUCache_get_cache, were a hit to leave the order of the entries alone
LRUCache_get_cache_still(cache, key) == cache

\* LRUCache.get: the cache afterwards
LRUCache_get_cache(cache, key) == IF has(cache, key) THEN move_to_end(cache, key) ELSE cache

\* LRUCache_set, were the new entry dropped when the cache is full
LRUCache_set_drop(cache, capacity, key, value) ==
    IF is_full(cache, capacity) THEN cache ELSE Append(cache, <<key, value>>)

\* LRUCache.set: the cache afterwards
LRUCache_set(cache, capacity, key, value) ==
    LET popped == IF is_full(cache, capacity) THEN pop(cache) ELSE cache
    IN  move_to_end(SetItem(popped, key, value), key)

\* the keys LRUCache.set(key, ...) drops from the cache
Evicted(cache, capacity, key) ==
    {k \in {cache[i][1] : i \in 1..Len(cache)} :
        ~has(LRUCache_set(cache, capacity, key, NoneValue), k)}

\* ---- one cache driven by any sequence of get and set calls

\* the capacity the cache is constructed with
CacheCapacity == 2

\* number of keys the calls choose from
NumCacheKeys == 3

\* number of calls made on the cache
MaxCacheOps == 5

CacheKeys == 1..NumCacheKeys

CacheValues == {"v1", "v2"}

\* the keys a cache holds
KeysOf(cache) == {cache[i][1] : i \in 1..Len(cache)}

\* LRUCache.get(k) (lines 14-22)
CacheGet(k) ==
    /\ clock < MaxCacheOps
    /\ lru' = LRUCache_get_cache(lru, k)
    /\ clock' = clock + 1
    /\ used' = IF has(lru, k) THEN [used EXCEPT ![k] = clock + 1] ELSE used
    /\ cret' = [op |-> "get", key |-> k, value |-> LRUCache_get(lru, k),
                evicted |-> {},
                hits |-> IF has(lru, k) THEN cret.hits + 1 ELSE cret.hits]
    /\ UNCHANGED cframe

\* LRUCache.set(k, v) (lines 24-30)
CacheSet(k, v) ==
    /\ clock < MaxCacheOps
    /\ lru' = LRUCache_set(lru, CacheCapacity, k, v)
    /\ clock' = clock + 1
    /\ used' = [used EXCEPT ![k] = clock + 1]
    /\ cret' = [op |-> "set", key |-> k, value |-> v,
                evicted |-> Evicted(lru, CacheCapacity, k),
                hits |-> cret.hits]
    /\ UNCHANGED cframe

\* LRUCache.__init__ (lines 6-9) and no call made
CInit ==
    /\ lru = <<>>
    /\ used = [k \in CacheKeys |-> 0]
    /\ clock = 0
    /\ cret = [op |-> "none", key |-> 0, value |-> NoneValue, evicted |-> {}, hits |-> 0]

CNext ==
    \/ \E k \in CacheKeys : CacheGet(k)
    \/ \E k \in CacheKeys, v \in CacheValues : CacheSet(k, v)

\* ------------------------------------------------------------------------
\* StringReferenceCache (stringreferencecache.py)
\* ------------------------------------------------------------------------

\* number of set calls made on the cache
MaxRefOps == 4

\* number of keys the calls choose from
NumRefKeys == 2

RefKeys == 1..NumRefKeys

\* the objects passed to set: 1 and 2 are distinct objects with one string
\* form, like an NSSet and its copy
RefObjects == {1, 2, 3}

\* str(value)
str(value) == IF value \in {1, 2} THEN "ns" ELSE "ns2"

\* StringReferenceRecord(value) (lines 20-22)
StringReferenceRecord(value) == [value |-> value, references |-> 0]

\* del d[key]
DelItem(d, key) == [x \in DOMAIN d \ {key} |-> d[x]]

\* StringReferenceCache.pop (lines 87-104) on the cache c
StringReferenceCache_pop(c) ==
    LET value_str == str(c.cache[1][2])
        references == c.str_to_reference[value_str].references - 1
    IN  [cache |-> pop(c.cache),
         str_to_reference |->
             IF references <= 0
             THEN DelItem(c.str_to_reference, value_str)
             ELSE [c.str_to_reference EXCEPT ![value_str].references = references]]

\* StringReferenceCache.set (lines 62-85) with the LRUCache.set it ends in
\* (lrucache.py lines 24-30), whose self.pop() is StringReferenceCache.pop
StringReferenceCache_set(c, capacity, key, value) ==
    LET value_str == str(value)
        known == IF value_str \notin DOMAIN c.str_to_reference
                 THEN (value_str :> StringReferenceRecord(value)) @@ c.str_to_reference
                 ELSE c.str_to_reference
        counted == [known EXCEPT ![value_str].references = @ + 1]
        canonical == counted[value_str].value
        c1 == [cache |-> c.cache, str_to_reference |-> counted]
        c2 == IF is_full(c1.cache, capacity) THEN StringReferenceCache_pop(c1) ELSE c1
    IN  [cache |-> move_to_end(SetItem(c2.cache, key, canonical), key),
         str_to_reference |-> c2.str_to_reference]

\* cache.set(k, v) on the cache driven on its own
RefSet(k, v) ==
    /\ ref_ops < MaxRefOps
    /\ LET c == StringReferenceCache_set(
                    [cache |-> ref_cache, str_to_reference |-> str_to_reference],
                    CacheCapacity, k, v)
       IN  /\ ref_cache' = c.cache
           /\ str_to_reference' = c.str_to_reference
    /\ ref_ops' = ref_ops + 1
    /\ UNCHANGED rframe

\* StringReferenceCache.__init__ (lines 58-60) and no call made
RefInit ==
    /\ ref_cache = <<>>
    /\ str_to_reference = <<>>
    /\ ref_ops = 0

RefNext == \E k \in RefKeys, v \in RefObjects : RefSet(k, v)

\* ------------------------------------------------------------------------
\* What the network can answer
\* ------------------------------------------------------------------------

\* rows of RRset.to_text(), as their whitespace-separated fields
NSRow(d) == <<d, "300", "IN", "NS", "ns1.example.">>

SOARow(d) == <<d, "300", "IN", "SOA", "m.example.", "r.example.", "1">>

\* response_data of a request for domain d: its rcode and answer + additional + authority
Replies(d) == { [rcode |-> NOERROR, records |-> <<NSRow(d), SOARow(d)>>],
                [rcode |-> NXDOMAIN, records |-> <<SOARow(d)>>] }

\* the response send_request returns when nothing was received
TimeoutResponse == [rcode |-> TimeoutRcode, records |-> <<>>]

\* ------------------------------------------------------------------------
\* PyDNS.query and PyDNS.dns_request (pydns.py)
\* ------------------------------------------------------------------------

Keys == Domains \X Nameservers \X RecordTypeChoices

\* query_args_str of a query
query_args_str(domain, nameserver, record_types) == <<domain, nameserver, record_types>>

ReqsOf(c) == {r \in Reqs : r[1] = c /\ r[2] <= Len(qkey[c][3])}

NsOf(r) == qkey[r[1]][2]

\* DNSRecord._make(row.split()[:5])
DNSRecord(row) == SubSeq(row, 1, 5)

rrtype(record) == record[4]

RECURSIVE Compile(_, _, _, _)
\* the loop of dns_request over the gathered responses, from position i on
Compile(record_types, responses, i, acc) ==
    IF i > Len(record_types)
    THEN acc
    ELSE IF responses[i].rcode = TimeoutRcode
         THEN [records |-> <<>>, rcodes |-> ("timeout" :> PyTrue) @@ acc.rcodes]
         ELSE Compile(record_types, responses, i + 1,
                      [records |-> acc.records \o responses[i].records,
                       rcodes |-> (record_types[i] :> responses[i].rcode) @@ acc.rcodes])

\* what dns_request returns for a blocked nameserver
SkippedRequest == [records |-> <<>>, rcodes |-> ("timeout" :> PyTrue)]

\* what dns_request returns once gather has returned the responses
dns_request(record_types, responses) ==
    Compile(record_types, responses, 1, [records |-> <<>>, rcodes |-> <<>>])

\* the QueryResponse that query builds from what dns_request returned
QueryResponse(raw_response, domain, nameserver, record_types) ==
    LET rows == raw_response.records
        types == {record_types[i] : i \in 1..Len(record_types)}
        data == {DNSRecord(rows[i]) : i \in 1..Len(rows)}
    IN  [data |-> {rec \in data : rrtype(rec) \in types \/ "ANY" \in types},
         rcodes |-> raw_response.rcodes,
         domain |-> domain,
         nameserver |-> nameserver]

\* callers of query that hold a call on key k
Holding(k) == {c \in Callers : qkey[c] = k /\ qpc[c] \in {"lead", "wait", "woken"}}

\* lines 381-399 of query: parse, cache, release the waiters, return
LeaderFinish(c, k, raw_response) ==
    LET value == QueryResponse(raw_response, k[1], k[2], k[3])
        gone == Evicted(query_cache, MAX_CACHED_QUERIES, k)
    IN  /\ query_cache' = LRUCache_set(query_cache, MAX_CACHED_QUERIES, k, value)
        /\ active_queries' = active_queries \ {k}
        /\ qpc' = [x \in Callers |->
                     IF x = c THEN "done"
                     ELSE IF qkey[x] = k /\ qpc[x] = "wait" THEN "woken"
                     ELSE qpc[x]]
        /\ qret' = [qret EXCEPT ![c] = value]
        /\ qdirty' = [x \in Callers |->
                        qdirty[x] \/ (x # c /\ qkey[x] \in gone
                                       /\ qpc[x] \in {"lead", "wait", "woken"})]
        /\ lastRet' = [x \in Keys |->
                         IF x = k /\ ~qdirty[c] THEN value
                         ELSE IF x \in gone THEN NoneValue
                         ELSE lastRet[x]]

\* line 362: cached_results is not None
IsCached(cache, key) == LRUCache_get(cache, key) # NoneValue

\* InFlight, were the in-flight check missing
InFlight_never(k) == FALSE

\* line 370: query_args_str in self.active_queries
InFlight(k) == k \in active_queries

\* line 319 and line 245: nameserver in self.timeout_nameservers
IsBlocked(ns) == ns \in timeout_nameservers

\* query, up to its first suspension; the calls are numbered in the order
\* in which they are made
QueryStart(c, k) ==
    /\ qpc[c] = "idle"
    /\ \A d \in Callers : d < c => qpc[d] # "idle"
    /\ UNCHANGED qframe
    /\ qkey' = [qkey EXCEPT ![c] = k]
    /\ IF IsCached(query_cache, k)
       THEN \* cached: return the cached results
            /\ query_cache' = LRUCache_get_cache(query_cache, k)
            /\ qpc' = [qpc EXCEPT ![c] = "done"]
            /\ qrole' = [qrole EXCEPT ![c] = "hit"]
            /\ qret' = [qret EXCEPT ![c] = LRUCache_get(query_cache, k)]
            /\ UNCHANGED <<active_queries, rpc, qdirty, lastRet>>
       ELSE IF InFlight(k)
       THEN \* the same query is being made: wait on its event
            /\ qpc' = [qpc EXCEPT ![c] = "wait"]
            /\ qrole' = [qrole EXCEPT ![c] = "waiter"]
            /\ UNCHANGED <<query_cache, active_queries, qret, rpc, qdirty, lastRet>>
       ELSE IF IsBlocked(k[2])
       THEN \* dns_request returns a timeout without suspending
            /\ LeaderFinish(c, k, SkippedRequest)
            /\ qrole' = [qrole EXCEPT ![c] = "leader"]
            /\ UNCHANGED rpc
       ELSE \* one request per record type is handed to gather
            /\ active_queries' = active_queries \cup {k}
            /\ qpc' = [qpc EXCEPT ![c] = "lead"]
            /\ qrole' = [qrole EXCEPT ![c] = "leader"]
            /\ rpc' = [r \in Reqs |->
                         IF r[1] = c /\ r[2] <= Len(k[3]) THEN "rl" ELSE rpc[r]]
            /\ UNCHANGED <<query_cache, qret, qdirty, lastRet>>
    /\ UNCHANGED <<timeout_nameservers, active_requests, requests_sent, sem,
                   limiter, retries, cancelled, unwinding, rresp, rsent>>

\* gather returned: the rest of dns_request and of query
GatherDone(c) ==
    /\ qpc[c] = "lead"
    /\ UNCHANGED qframe
    /\ \A r \in ReqsOf(c) : rpc[r] = "done"
    /\ LeaderFinish(c, qkey[c],
                    dns_request(qkey[c][3], [i \in 1..Len(qkey[c][3]) |-> rresp[<<c, i>>]]))
    /\ UNCHANGED <<timeout_nameservers, active_requests, requests_sent, sem,
                   limiter, qkey, qrole, rpc, retries, cancelled, unwinding, rresp,
                   rsent>>

\* gather raised the CancelledError of one of its requests: it leaves
\* dns_request and query through no except clause
GatherRaise(c) ==
    /\ qpc[c] = "lead"
    /\ UNCHANGED qframe
    /\ \E r \in ReqsOf(c) : rpc[r] = "raised"
    /\ qpc' = [qpc EXCEPT ![c] = "raised"]
    /\ UNCHANGED <<query_cache, active_queries, timeout_nameservers, active_requests,
                   requests_sent, sem, limiter, qkey, qret, qdirty, qrole, rpc, retries,
                   cancelled, unwinding, rresp, rsent, lastRet>>

\* a waiter resumes after query_event.wait()
WaiterResume(c) ==
    /\ qpc[c] = "woken"
    /\ UNCHANGED qframe
    /\ query_cache' = LRUCache_get_cache(query_cache, qkey[c])
    /\ qpc' = [qpc EXCEPT ![c] = "done"]
    /\ qret' = [qret EXCEPT ![c] = LRUCache_get(query_cache, qkey[c])]
    /\ lastRet' = [lastRet EXCEPT ![qkey[c]] =
                     IF qdirty[c] THEN @ ELSE LRUCache_get(query_cache, qkey[c])]
    /\ UNCHANGED <<active_queries, timeout_nameservers, active_requests,
                   requests_sent, sem, limiter, qkey, qdirty, qrole, rpc, retries,
                   cancelled, unwinding, rresp, rsent>>

\* ---- two query calls made one after the other on a new PyDNS, with any
\* record types and any responses to their requests

\* the record types a call asks for: the sequences without repetition
CallTypeNames == {"NS", "A"}

CallRecordTypes ==
    {t \in UNION {[1..n -> CallTypeNames] : n \in 1..Cardinality(CallTypeNames)} :
        \A i, j \in 1..Len(t) : t[i] = t[j] => i = j}

CallArgs == [domain : Domains, nameserver : Nameservers, record_types : CallRecordTypes]

\* the rcodes send_request can return
SendRcodes == {NOERROR, NXDOMAIN, TimeoutRcode}

\* what send_request returns with that rcode for a request for domain d
SendResult(d, rcode) ==
    IF rcode = TimeoutRcode
    THEN TimeoutResponse
    ELSE CHOOSE reply \in Replies(d) : reply.rcode = rcode

\* query(domain, nameserver, record_types) by call i, which nothing
\* interleaves with: lines 359-365, or 376-399 with the responses the
\* requests get
CallQuery(i) ==
    /\ call_step = i - 1
    /\ call_step' = i
    /\ LET a == call_args[i]
           key == query_args_str(a.domain, a.nameserver, a.record_types)
           raw == dns_request(a.record_types,
                              [j \in 1..Len(a.record_types) |->
                                  SendResult(a.domain, call_responses[a.record_types[j]])])
           value == QueryResponse(raw, a.domain, a.nameserver, a.record_types)
       IN  IF IsCached(call_cache, key)
           THEN /\ call_hit' = TRUE
                /\ call_value' = [call_value EXCEPT ![i] = LRUCache_get(call_cache, key)]
                /\ call_cache' = LRUCache_get_cache(call_cache, key)
                /\ UNCHANGED call_raw
           ELSE /\ call_hit' = FALSE
                /\ call_raw' = IF i = 1 THEN raw ELSE call_raw
                /\ call_value' = [call_value EXCEPT ![i] = value]
                /\ call_cache' = LRUCache_set(call_cache, MAX_CACHED_QUERIES, key, value)
    /\ UNCHANGED <<call_args, call_responses, kframe>>

\* no call made
CallNone ==
    /\ call_step = 0
    /\ call_raw = NoneValue
    /\ call_value = [i \in 1..2 |-> NoneValue]
    /\ call_cache = <<>>
    /\ call_hit = FALSE

\* the calls that are not made
CallIdle ==
    /\ call_args = [i \in 1..2 |-> [domain |-> "d1", nameserver |-> "n1",
                                    record_types |-> <<"NS">>]]
    /\ call_responses = [t \in CallTypeNames |-> TimeoutRcode]
    /\ CallNone

\* any two calls and any response to the requests for each record type
CallInit ==
    /\ call_args \in [1..2 -> CallArgs]
    /\ call_responses \in [CallTypeNames -> SendRcodes]
    /\ CallNone

CallNext == \E i \in 1..2 : CallQuery(i)

\* ------------------------------------------------------------------------
\* RateLimiter (ratelimiter.py)
\* ------------------------------------------------------------------------

\* RateLimiter.__init__
RateLimiter(max_actions) ==
    [max_actions_per_window |-> max_actions,
     current_actions_per_window |-> 0,
     awaiting_reset |-> FALSE]

\* a limit test that lets one action too many through
ratelimit_hit_late(l) == l.current_actions_per_window = l.max_actions_per_window + 1

ratelimit_hit(l) == l.current_actions_per_window = l.max_actions_per_window

\* run, lines 38-41: create a reset task if one hasn't already been created
WithResetTask(l) == [l EXCEPT !.awaiting_reset = TRUE]

\* run, lines 44-45: the action is admitted
Admit(l) == [l EXCEPT !.current_actions_per_window = @ + 1]

\* reset_limit, were it to leave awaiting_reset set
ResetWindow_still_awaiting(l) == [l EXCEPT !.current_actions_per_window = 0]

\* reset_limit, were it to leave the window counter as it is
ResetWindow_still_full(l) == [l EXCEPT !.awaiting_reset = FALSE]

\* reset_limit, lines 76-77
ResetWindow(l) == [l EXCEPT !.awaiting_reset = FALSE, !.current_actions_per_window = 0]

\* ------------------------------------------------------------------------
\* PyDNS.send_request (pydns.py)
\* ------------------------------------------------------------------------

\* locked, were acquire never to wait
locked_never(s) == FALSE

\* asyncio.Semaphore.locked(), with s permits left
locked(s) == s = 0

\* RetriesExhausted, were the bound one retry later
RetriesExhausted_late(n) == n > REQUEST_RETRIES + 1

\* line 291: retries > constants.REQUEST_RETRIES
RetriesExhausted(n) == n > REQUEST_RETRIES

\* send_request(request, nameserver, n) from its entry to its first
\* suspension, with s permits in the semaphore
SendEnter(r, s, n, unw) ==
    LET ns == NsOf(r)
    IN  /\ retries' = [retries EXCEPT ![r] = n]
        /\ unwinding' = [unwinding EXCEPT ![r] = unw]
        /\ IF IsBlocked(ns)
           THEN \* skipped due to prior timeout: return the timeout response; a
                \* CancelledError in flight leaves the finally block afterwards
                /\ rpc' = [rpc EXCEPT ![r] = IF unw THEN "raised" ELSE "done"]
                /\ rresp' = [rresp EXCEPT ![r] = TimeoutResponse]
                /\ sem' = s
                /\ UNCHANGED <<active_requests, requests_sent, rsent>>
           ELSE IF ~locked(s)
           THEN \* acquire() returns at once; the request is sent
                /\ sem' = s - 1
                /\ active_requests' =
                       [active_requests EXCEPT ![ns] = Append(@, [req |-> r, att |-> n])]
                /\ requests_sent' = requests_sent + 1
                /\ rsent' = [rsent EXCEPT ![r] = @ + 1]
                /\ rpc' = [rpc EXCEPT ![r] = "inflight"]
                /\ UNCHANGED rresp
           ELSE \* suspended in concurrent_request_limiter.acquire()
                /\ rpc' = [rpc EXCEPT ![r] = "sem"]
                /\ sem' = s
                /\ UNCHANGED <<active_requests, requests_sent, rsent, rresp>>

\* ns_ratelimiter.run(self.send_request(request, nameserver, n)) from its
\* entry to its first suspension
RunEnter(r, s, n, unw) ==
    LET ns == NsOf(r)
        l == WithResetTask(limiter[ns])
    IN  IF ~ratelimit_hit(l)
        THEN /\ limiter' = [limiter EXCEPT ![ns] = Admit(l)]
             /\ SendEnter(r, s, n, unw)
        ELSE \* ratelimit_reset.clear(); await ratelimit_reset.wait()
             /\ limiter' = [limiter EXCEPT ![ns] = l]
             /\ rpc' = [rpc EXCEPT ![r] = "rlwait"]
             /\ retries' = [retries EXCEPT ![r] = n]
             /\ unwinding' = [unwinding EXCEPT ![r] = unw]
             /\ sem' = s
             /\ UNCHANGED <<active_requests, requests_sent, rsent, rresp>>

\* the task gather made for a request starts, or a waiter of the limiter
\* resumes and calls run again
RunStart(r) ==
    /\ rpc[r] = "rl"
    /\ UNCHANGED qframe
    /\ RunEnter(r, sem, retries[r], unwinding[r])
    /\ UNCHANGED <<query_cache, active_queries, timeout_nameservers, qpc, qkey,
                   qret, qdirty, qrole, cancelled, lastRet>>

\* RateLimiter.reset_limit after its sleep: every waiter of the event resumes
reset_limit(ns) ==
    /\ limiter[ns].awaiting_reset
    /\ UNCHANGED qframe
    /\ limiter' = [limiter EXCEPT ![ns] = ResetWindow(@)]
    /\ rpc' = [r \in Reqs |->
                 IF rpc[r] = "rlwait" /\ NsOf(r) = ns THEN "rl" ELSE rpc[r]]
    /\ UNCHANGED <<query_cache, active_queries, timeout_nameservers, active_requests,
                   requests_sent, sem, qpc, qkey, qret, qdirty, qrole, retries, cancelled,
                   unwinding, rresp, rsent, lastRet>>

\* concurrent_request_limiter.acquire() returns to a suspended send_request,
\* which goes on to send its request (lines 254-274)
SemAcquire(r) ==
    /\ rpc[r] = "sem"
    /\ UNCHANGED qframe
    /\ ~locked(sem)
    /\ sem' = sem - 1
    /\ active_requests' =
           [active_requests EXCEPT ![NsOf(r)] = Append(@, [req |-> r, att |-> retries[r]])]
    /\ requests_sent' = requests_sent + 1
    /\ rsent' = [rsent EXCEPT ![r] = @ + 1]
    /\ rpc' = [rpc EXCEPT ![r] = "inflight"]
    /\ UNCHANGED <<query_cache, active_queries, timeout_nameservers, limiter, qpc,
                   qkey, qret, qdirty, qrole, retries, cancelled, unwinding, rresp, lastRet>>

\* list.remove(x): drop the first element equal to x
remove(lst, x) ==
    LET i == CHOOSE j \in 1..Len(lst) :
                 lst[j] = x /\ \A m \in 1..(j - 1) : lst[m] # x
    IN  SubSeq(lst, 1, i - 1) \o SubSeq(lst, i + 1, Len(lst))

RECURSIVE CancelLoop(_, _, _)
\* lines 300-303: "for future in self.active_requests[nameserver]" with the
\* iterator at index i of the list the body removes from; seen collects the
\* futures the body ran for
CancelLoop(lst, i, seen) ==
    IF i > Len(lst)
    THEN [rest |-> lst, seen |-> seen]
    ELSE CancelLoop(remove(lst, lst[i]), i + 1, seen \cup {lst[i]})

\* future.done() is false: the task of req's current attempt, still awaited
Pending(task) ==
    /\ rpc[task.req] = "inflight"
    /\ retries[task.req] = task.att

\* Block, were the nameserver left out of the blocked set
Block_unrecorded(r) ==
    LET ns == NsOf(r)
        loop == CancelLoop(active_requests[ns], 1, {})
    IN  /\ sem' = sem + 1
        /\ timeout_nameservers' = timeout_nameservers
        /\ active_requests' = [active_requests EXCEPT ![ns] = loop.rest]
        /\ cancelled' = [x \in Reqs |->
                           cancelled[x] \/ \E task \in loop.seen :
                                              task.req = x /\ x # r /\ Pending(task)]
        /\ rpc' = [rpc EXCEPT ![r] = "done"]
        /\ rresp' = [rresp EXCEPT ![r] = TimeoutResponse]
        /\ UNCHANGED <<requests_sent, limiter, retries, unwinding, rsent>>

\* the finally block of a send_request that blocks its nameserver
\* (lines 296-303); r is the request whose task just failed
Block(r) ==
    LET ns == NsOf(r)
        loop == CancelLoop(active_requests[ns], 1, {})
    IN  /\ sem' = sem + 1
        /\ timeout_nameservers' = timeout_nameservers \cup {ns}
        /\ active_requests' = [active_requests EXCEPT ![ns] = loop.rest]
        /\ cancelled' = [x \in Reqs |->
                           cancelled[x] \/ \E task \in loop.seen :
                                              task.req = x /\ x # r /\ Pending(task)]
        /\ rpc' = [rpc EXCEPT ![r] = "done"]
        /\ rresp' = [rresp EXCEPT ![r] = TimeoutResponse]
        /\ UNCHANGED <<requests_sent, limiter, retries, unwinding, rsent>>

\* the request's task completes with a response (lines 275-280, 296, 310)
Response(r) ==
    /\ rpc[r] = "inflight"
    /\ UNCHANGED qframe
    /\ ~cancelled[r]
    /\ \E reply \in Replies(qkey[r[1]][1]) : rresp' = [rresp EXCEPT ![r] = reply]
    /\ active_requests' =
           [active_requests EXCEPT ![NsOf(r)] = remove(@, [req |-> r, att |-> retries[r]])]
    /\ sem' = sem + 1
    /\ rpc' = [rpc EXCEPT ![r] = "done"]
    /\ UNCHANGED <<query_cache, active_queries, timeout_nameservers, requests_sent,
                   limiter, qpc, qkey, qret, qdirty, qrole, retries, cancelled, unwinding,
                   rsent, lastRet>>

\* the request's task raises ConnectionRefusedError or ConnectionResetError
Refused(r) ==
    /\ rpc[r] = "inflight"
    /\ UNCHANGED qframe
    /\ ~cancelled[r]
    /\ Block(r)
    /\ UNCHANGED <<query_cache, active_queries, qpc, qkey, qret, qdirty, qrole, lastRet>>

\* Timeout, were the retry started with the permit still held
Timeout_holding(r) ==
    /\ rpc[r] = "inflight"
    /\ UNCHANGED qframe
    /\ ~cancelled[r]
    /\ IF RetriesExhausted(retries[r])
       THEN Block(r)
       ELSE /\ RunEnter(r, sem, retries[r] + 1, unwinding[r])
            /\ UNCHANGED <<timeout_nameservers, cancelled>>
    /\ UNCHANGED <<query_cache, active_queries, qpc, qkey, qret, qdirty, qrole, lastRet>>

\* the request's task raises the TimeoutError of wait_for (lines 289-306)
Timeout(r) ==
    /\ rpc[r] = "inflight"
    /\ UNCHANGED qframe
    /\ ~cancelled[r]
    /\ IF RetriesExhausted(retries[r])
       THEN Block(r)
       ELSE /\ RunEnter(r, sem + 1, retries[r] + 1, unwinding[r])
            /\ UNCHANGED <<timeout_nameservers, cancelled>>
    /\ UNCHANGED <<query_cache, active_queries, qpc, qkey, qret, qdirty, qrole, lastRet>>

\* the request's task was cancelled by the block of its nameserver:
\* CancelledError is no Exception, so no except clause runs; the finally block
\* releases the semaphore and, block_nameserver and request_success being
\* false, awaits the retry before the CancelledError goes on
CancelDelivered(r) ==
    /\ rpc[r] = "inflight"
    /\ UNCHANGED qframe
    /\ cancelled[r]
    /\ cancelled' = [cancelled EXCEPT ![r] = FALSE]
    /\ RunEnter(r, sem + 1, retries[r] + 1, TRUE)
    /\ UNCHANGED <<query_cache, active_queries, timeout_nameservers, qpc, qkey,
                   qret, qdirty, qrole, lastRet>>

\* ------------------------------------------------------------------------
\* The query engine
\* ------------------------------------------------------------------------

QInit ==
    /\ MAX_CONCURRENT_REQUESTS \in 1..MaxPermits
    /\ query_cache = <<>>
    /\ active_queries = {}
    /\ timeout_nameservers = {}
    /\ active_requests = [ns \in Nameservers |-> <<>>]
    /\ requests_sent = 0
    /\ sem = MAX_CONCURRENT_REQUESTS
    /\ limiter = [ns \in Nameservers |-> RateLimiter(MAX_REQUESTS_PER_NAMESERVER_SECOND)]
    /\ qpc = [c \in Callers |-> "idle"]
    /\ qkey = [c \in Callers |-> NoKey]
    /\ qret = [c \in Callers |-> NoneValue]
    /\ qdirty = [c \in Callers |-> FALSE]
    /\ qrole = [c \in Callers |-> "none"]
    /\ rpc = [r \in Reqs |-> "none"]
    /\ retries = [r \in Reqs |-> 0]
    /\ cancelled = [r \in Reqs |-> FALSE]
    /\ unwinding = [r \in Reqs |-> FALSE]
    /\ rresp = [r \in Reqs |-> TimeoutResponse]
    /\ rsent = [r \in Reqs |-> 0]
    /\ lastRet = [k \in Keys |-> NoneValue]

Next ==
    \/ \E c \in Callers, k \in Keys : QueryStart(c, k)
    \/ \E c \in Callers : GatherDone(c)
    \/ \E c \in Callers : GatherRaise(c)
    \/ \E c \in Callers : WaiterResume(c)
    \/ \E r \in Reqs : RunStart(r)
    \/ \E ns \in Nameservers : reset_limit(ns)
    \/ \E r \in Reqs : SemAcquire(r)
    \/ \E r \in Reqs : Response(r)
    \/ \E r \in Reqs : Refused(r)
    \/ \E r \in Reqs : Timeout(r)
    \/ \E r \in Reqs : CancelDelivered(r)


\* ------------------------------------------------------------------------
\* RateLimiter against the clock of the event loop (ratelimiter.py)
\* ------------------------------------------------------------------------

\* number of tasks passed to run
NumTasks == 4

\* action_window, in ticks of the clock
ACTION_WINDOW == 2

\* the clock stops here
MaxTime == 3

Tasks == 1..NumTasks

\* the sequence q holds x
InSeq(q, x) == \E i \in 1..Len(q) : q[i] = x

\* who may call run for a task: a caller outside the limiter (0) or, as
\* send_request does for a retry, the action of a task run admitted and whose
\* result is still awaited
Submitters == {0} \cup {k \in Tasks : tpc[k] = "admitted" /\ k \notin returned}

\* the clock of a limiter with a pending reset stops here
MaxResetTime == ACTION_WINDOW * (NumTasks + 1)

\* RateLimiter.run (lines 34-52) up to its first suspension: create the
\* reset task when none is pending, then admit the action or clear the event
\* and wait for it. A woken task is at `return await self.run(action)`; the
\* tasks Event.set woke resume in the order in which they waited. The tasks
\* are numbered in the order of their first call of run.
RateLimiter_run(t) ==
    /\ \/ /\ tpc[t] = "new"
          /\ \A k \in 1..(t - 1) : tpc[k] # "new"
          /\ \E k \in Submitters : submitted_by' = [submitted_by EXCEPT ![t] = k]
       \/ /\ tpc[t] = "woken"
          /\ ratelimit_reset # <<>>
          /\ Head(ratelimit_reset) = t
          /\ UNCHANGED submitted_by
    /\ LET l == IF rl.awaiting_reset THEN rl ELSE WithResetTask(rl)
           waiters == IF tpc[t] = "woken" THEN Tail(ratelimit_reset) ELSE ratelimit_reset
       IN  /\ resetDue' = IF rl.awaiting_reset THEN resetDue ELSE now + ACTION_WINDOW
           /\ reset_tasks' = IF rl.awaiting_reset THEN reset_tasks ELSE reset_tasks + 1
           /\ IF ~ratelimit_hit(l)
              THEN /\ rl' = Admit(l)
                   /\ tpc' = [tpc EXCEPT ![t] = "admitted"]
                   /\ admitTime' = [admitTime EXCEPT ![t] = now]
                   /\ sinceReset' = sinceReset \cup {t}
                   /\ ratelimit_reset' = waiters
                   /\ UNCHANGED suspended
              ELSE /\ rl' = l
                   /\ tpc' = [tpc EXCEPT ![t] = "rlwait"]
                   /\ ratelimit_reset' = Append(waiters, t)
                   /\ suspended' = IF InSeq(suspended, t) THEN suspended
                                   ELSE Append(suspended, t)
                   /\ UNCHANGED <<admitTime, sinceReset>>
    /\ UNCHANGED <<now, returned, lframe>>

\* run, lines 46-48: the action of an admitted task ends and run returns its
\* result; an action that submitted a retry awaits it first
RateLimiter_return(t) ==
    /\ tpc[t] = "admitted"
    /\ t \notin returned
    /\ \A k \in Tasks : submitted_by[k] = t => k \in returned
    /\ returned' = returned \cup {t}
    /\ UNCHANGED <<rl, now, resetDue, tpc, admitTime, sinceReset, reset_tasks,
                   ratelimit_reset, suspended, submitted_by, lframe>>

\* RateLimiter.reset_limit after its sleep (lines 69-78): the window is
\* reset and the event wakes every task waiting on it
RateLimiter_reset_limit ==
    /\ reset_tasks > 0
    /\ now >= resetDue
    /\ rl' = ResetWindow(rl)
    /\ reset_tasks' = reset_tasks - 1
    /\ tpc' = [t \in Tasks |-> IF tpc[t] = "rlwait" THEN "woken" ELSE tpc[t]]
    /\ sinceReset' = {}
    /\ UNCHANGED <<now, resetDue, admitTime, ratelimit_reset, suspended, returned,
                   submitted_by, lframe>>

\* the clock of the event loop advances
Tick ==
    /\ now < MaxTime
    /\ now' = now + 1
    /\ UNCHANGED <<rl, resetDue, tpc, admitTime, sinceReset, reset_tasks,
                   ratelimit_reset, suspended, returned, submitted_by, lframe>>

\* the clock of the event loop advances towards the end of the sleep of a
\* pending reset_limit
SleepTick ==
    /\ reset_tasks > 0
    /\ now < resetDue
    /\ now < MaxResetTime
    /\ now' = now + 1
    /\ UNCHANGED <<rl, resetDue, tpc, admitTime, sinceReset, reset_tasks,
                   ratelimit_reset, suspended, returned, submitted_by, lframe>>

\* RateLimiter.__init__ (lines 13-24) and no task started
LInit ==
    /\ rl = RateLimiter(MAX_REQUESTS_PER_NAMESERVER_SECOND)
    /\ now = 0
    /\ resetDue = 0
    /\ tpc = [t \in Tasks |-> "new"]
    /\ admitTime = [t \in Tasks |-> 0]
    /\ sinceReset = {}
    /\ reset_tasks = 0
    /\ ratelimit_reset = <<>>
    /\ suspended = <<>>
    /\ returned = {}
    /\ submitted_by = [t \in Tasks |-> 0]

LNext ==
    \/ \E t \in Tasks : RateLimiter_run(t)
    \/ \E t \in Tasks : RateLimiter_return(t)
    \/ RateLimiter_reset_limit
    \/ Tick

\* the limiter with a clock that advances while a reset is pending
ScheduledNext ==
    \/ \E t \in Tasks : RateLimiter_run(t)
    \/ \E t \in Tasks : RateLimiter_return(t)
    \/ RateLimiter_reset_limit
    \/ SleepTick

\* ------------------------------------------------------------------------
\* The exit of the PyDNS scope (pydns.py, ratelimiter.py, contextmanager.py)
\* ------------------------------------------------------------------------

\* number of requests made before the scope is left
MaxRequests == 2

\* number of nameservers the requests go to
NumShutdownNameservers == 2

ShutdownNameservers == 1..NumShutdownNameservers

\* list.remove(x)
list_remove(lst, x) ==
    LET others(e) == e # x
    IN  SelectSeq(lst, others)

\* the awaitables of a list that are tasks still pending
PendingIn(lst) == {lst[i] : i \in {j \in 1..Len(lst) : lst[j] \in DOMAIN bg /\ bg[lst[j]] = "pending"}}

\* dns_request (lines 326-338), RateLimiter.run (lines 35-46) and
\* send_request (lines 255-273) for a request that the limiter admits: the
\* limiter is created when the nameserver has none, the reset task and the
\* RPS sampler are created when none is pending, the request task is created
SRequest(ns) ==
    /\ xpc = "open"
    /\ sreq < MaxRequests
    /\ LET n == sreq + 1
           known == ns \in DOMAIN nameserver_ratelimiters
           l0 == IF known THEN nameserver_ratelimiters[ns]
                 ELSE RateLimiter(MAX_REQUESTS_PER_NAMESERVER_SECOND)
           list0 == IF known THEN rl_awaitable_list[ns] ELSE <<>>
           l1 == IF l0.awaiting_reset THEN l0 ELSE WithResetTask(l0)
           list1 == Append(list0, <<"action", ns, n>>)
           list2 == IF l0.awaiting_reset THEN list1 ELSE Append(list1, <<"reset", ns, n>>)
           b1 == IF l0.awaiting_reset THEN bg ELSE (<<"reset", ns, n>> :> "pending") @@ bg
           b2 == IF awaiting_rps_calc THEN b1 ELSE (<<"rps", 0, n>> :> "pending") @@ b1
           a1 == IF awaiting_rps_calc THEN awaitable_list
                 ELSE Append(awaitable_list, <<"rps", 0, n>>)
       IN  /\ ~ratelimit_hit(l1)
           /\ nameserver_ratelimiters' = (ns :> Admit(l1)) @@ nameserver_ratelimiters
           /\ rl_awaitable_list' = (ns :> list2) @@ rl_awaitable_list
           /\ awaiting_rps_calc' = TRUE
           /\ awaitable_list' = Append(a1, <<"query", ns, n>>)
           /\ bg' = (<<"query", ns, n>> :> "pending") @@ b2
           /\ sreq' = n
    /\ UNCHANGED <<xpc, exit_awaitables, logged>>
    /\ UNCHANGED sframe

\* the request task ends with a response: send_request returns and run
\* removes the action from the list of the limiter (line 47)
SResponse(t) ==
    /\ t \in DOMAIN bg /\ bg[t] = "pending" /\ t[1] = "query"
    /\ bg' = [bg EXCEPT ![t] = "done"]
    /\ rl_awaitable_list' = [rl_awaitable_list EXCEPT
                                ![t[2]] = list_remove(@, <<"action", t[2], t[3]>>)]
    /\ UNCHANGED <<nameserver_ratelimiters, awaitable_list, awaiting_rps_calc, sreq,
                   xpc, exit_awaitables, logged>>
    /\ UNCHANGED sframe

\* calculate_rps after its sleep (lines 207-219)
SCalculateRps(t) ==
    /\ t \in DOMAIN bg /\ bg[t] = "pending" /\ t[1] = "rps"
    /\ bg' = [bg EXCEPT ![t] = "done"]
    /\ awaiting_rps_calc' = FALSE
    /\ UNCHANGED <<nameserver_ratelimiters, rl_awaitable_list, awaitable_list, sreq,
                   xpc, exit_awaitables, logged>>
    /\ UNCHANGED sframe

\* RateLimiter.reset_limit after its sleep (lines 69-78)
SResetLimit(t) ==
    /\ t \in DOMAIN bg /\ bg[t] = "pending" /\ t[1] = "reset"
    /\ bg' = [bg EXCEPT ![t] = "done"]
    /\ nameserver_ratelimiters' = [nameserver_ratelimiters EXCEPT ![t[2]] = ResetWindow(@)]
    /\ UNCHANGED <<rl_awaitable_list, awaitable_list, awaiting_rps_calc, sreq,
                   xpc, exit_awaitables, logged>>
    /\ UNCHANGED sframe

RECURSIVE ExitTasks(_)
\* the tasks PyDNS.__aexit__ creates, one for each limiter (lines 137-140)
ExitTasks(nss) ==
    IF nss = {}
    THEN <<>>
    ELSE LET ns == CHOOSE x \in nss : \A y \in nss : x <= y
         IN  <<<<"rl_exit", ns, 0>>>> \o ExitTasks(nss \ {ns})

\* PyDNS.__aexit__ (lines 137-141) and AsyncContextManager.__aexit__ up to
\* its first await (lines 27-40): an exit task is created for each limiter,
\* and the futures of the list that are not done are the ones to await
PyDNS_aexit ==
    /\ xpc = "open"
    /\ LET created == ExitTasks(DOMAIN nameserver_ratelimiters)
           lst == awaitable_list \o created
           b == [t \in {created[i] : i \in 1..Len(created)} |-> "pending"] @@ bg
           notdone(t) == b[t] = "pending"
       IN  /\ awaitable_list' = lst
           /\ bg' = b
           /\ exit_awaitables' = SelectSeq(lst, notdone)
    /\ xpc' = "exiting"
    /\ UNCHANGED <<nameserver_ratelimiters, rl_awaitable_list, awaiting_rps_calc,
                   sreq, logged>>
    /\ UNCHANGED sframe

\* the task of RateLimiter.__aexit__ runs (line 32): the call of
\* AsyncContextManager.__aexit__ passes one positional argument more than
\* the method takes and raises TypeError before anything is awaited
RateLimiter_aexit(t) ==
    /\ t \in DOMAIN bg /\ bg[t] = "pending" /\ t[1] = "rl_exit"
    /\ bg' = [bg EXCEPT ![t] = "failed"]
    /\ UNCHANGED <<nameserver_ratelimiters, rl_awaitable_list, awaitable_list,
                   awaiting_rps_calc, sreq, xpc, exit_awaitables, logged>>
    /\ UNCHANGED sframe

\* AsyncContextManager.__aexit__, one pass of the loop of lines 40-45: the
\* next awaitable is done; its exception, if any, is logged
AwaitNext ==
    /\ xpc = "exiting"
    /\ exit_awaitables # <<>>
    /\ bg[Head(exit_awaitables)] # "pending"
    /\ exit_awaitables' = Tail(exit_awaitables)
    /\ logged' = IF bg[Head(exit_awaitables)] = "failed"
                 THEN logged \cup {Head(exit_awaitables)}
                 ELSE logged
    /\ UNCHANGED <<nameserver_ratelimiters, rl_awaitable_list, awaitable_list,
                   awaiting_rps_calc, bg, sreq, xpc>>
    /\ UNCHANGED sframe

\* the loop is over and PyDNS.__aexit__ returns
ExitReturn ==
    /\ xpc = "exiting"
    /\ exit_awaitables = <<>>
    /\ xpc' = "closed"
    /\ UNCHANGED <<nameserver_ratelimiters, rl_awaitable_list, awaitable_list,
                   awaiting_rps_calc, bg, sreq, exit_awaitables, logged>>
    /\ UNCHANGED sframe

\* PyDNS.__init__ and __aenter__: no limiter, no task
SInit ==
    /\ nameserver_ratelimiters = <<>>
    /\ rl_awaitable_list = <<>>
    /\ awaitable_list = <<>>
    /\ awaiting_rps_calc = FALSE
    /\ bg = <<>>
    /\ sreq = 0
    /\ xpc = "open"
    /\ exit_awaitables = <<>>
    /\ logged = {}

SNext ==
    \/ \E ns \in ShutdownNameservers : SRequest(ns)
    \/ \E t \in DOMAIN bg : SResponse(t)
    \/ \E t \in DOMAIN bg : SCalculateRps(t)
    \/ \E t \in DOMAIN bg : SResetLimit(t)
    \/ PyDNS_aexit
    \/ \E t \in DOMAIN bg : RateLimiter_aexit(t)
    \/ AwaitNext
    \/ ExitReturn

\* ------------------------------------------------------------------------
\* The network a crawl runs against
\* ------------------------------------------------------------------------

\* queries of a crawl that are answered with something else than the data
\* of the zone
MaxFaults == 1

\* hostnames as label sequences; the root "." is the empty sequence
RootName == <<>>

Com == <<"com">>

Net == <<"net">>

ACom == <<"a", "com">>

BNet == <<"b", "net">>

NsACom == <<"ns", "a", "com">>

NsBNet == <<"ns", "b", "net">>

NicCom == <<"nic", "com">>

NicNet == <<"nic", "net">>

WwwACom == <<"www", "a", "com">>

RootServer == <<"a", "root-servers", "net">>

\* the zone of the root servers
RootServersNet == <<"root-servers", "net">>

Uk == <<"uk">>

\* a public suffix of two labels
CoUk == <<"co", "uk">>

NicUk == <<"nic", "uk">>

\* the names get_host_dependencies is called with
Targets == {ACom, WwwACom}

\* the public suffix list tldextract works from
PublicSuffixes == {Com, Net, Uk, CoUk}

\* the address of each host of the network
HostIP(h) ==
    CASE h = NsACom -> "ipA"
      [] h = NsBNet -> "ipB"
      [] h = NicCom -> "ipC"
      [] h = NicNet -> "ipN"
      [] h = WwwACom -> "ipW"
      [] h = RootServer -> "ipR"
      [] h = NicUk -> "ipU"

\* constants.ROOT_SERVERS: pairs of a root server and one of its addresses
ROOT_SERVERS == {<<RootServer, HostIP(RootServer)>>}

\* a DNSRecord of type NS
NSRecord(owner, host) == [name |-> owner, rrtype |-> "NS", data |-> host]

\* a DNSRecord of type A
ARecord(owner, ip) == [name |-> owner, rrtype |-> "A", data |-> ip]

\* what a zone can contain: its nameservers, and whether their addresses
\* come along as glue
ZoneChoices ==
    { [ns |-> {NsACom}, glue |-> TRUE], [ns |-> {NsACom}, glue |-> FALSE],
      [ns |-> {NsBNet}, glue |-> TRUE], [ns |-> {NsBNet}, glue |-> FALSE],
      [ns |-> {RootName}, glue |-> FALSE],
      [ns |-> {NicCom}, glue |-> TRUE] }

ZoneConfigs == [a : ZoneChoices, b : ZoneChoices]

\* the records a delegation of zone answers with
Delegation(zone, c) ==
    {NSRecord(zone, h) : h \in c.ns} \cup
    (IF c.glue THEN {ARecord(h, HostIP(h)) : h \in c.ns \ {RootName}} ELSE {})

\* the records the network holds for a name
ZoneRecords(z, name) ==
    CASE name = Com -> {NSRecord(Com, NicCom), ARecord(NicCom, HostIP(NicCom))}
      [] name = Net -> {NSRecord(Net, NicNet), ARecord(NicNet, HostIP(NicNet))}
      [] name = ACom -> Delegation(ACom, z.a)
      [] name = BNet -> Delegation(BNet, z.b)
      \* the root server has an address that the table of the resolver lacks
      [] name = RootServersNet ->
             {NSRecord(RootServersNet, RootServer), ARecord(RootServer, "ipS")}
      [] name \in {Uk, CoUk} -> {NSRecord(name, NicUk), ARecord(NicUk, HostIP(NicUk))}
      [] name \in {NsACom, NsBNet, NicCom, NicNet, WwwACom, NicUk} ->
             {ARecord(name, HostIP(name))}
      [] OTHER -> {}

\* the ways a nameserver answers a query
ResponseKinds == {"data", "noerror", "nxdomain", "servfail", "timeout"}

SERVFAIL == 2

\* the QueryResponse pydns.query returns for an answer of the given kind
WalkerResponse(z, kind, name, ip) ==
    [data |-> IF kind = "data" THEN ZoneRecords(z, name) ELSE {},
     rcodes |-> IF kind = "timeout"
                THEN ("timeout" :> PyTrue)
                ELSE [t \in {"NS", "A", "AAAA"} |->
                         CASE kind = "nxdomain" -> NXDOMAIN
                           [] kind = "servfail" -> SERVFAIL
                           [] OTHER -> NOERROR],
     domain |-> name,
     nameserver |-> ip]

\* ------------------------------------------------------------------------
\* DNSResolver helpers (dnsresolver.py)
\* ------------------------------------------------------------------------

\* str.endswith on hostnames
endswith(name, suffix) ==
    /\ Len(suffix) <= Len(name)
    /\ \A j \in 1..Len(suffix) : name[Len(name) - Len(suffix) + j] = suffix[j]

\* tldextract.extract: subdomain, domain and suffix of a hostname
extract(name) ==
    LET n == Len(name)
        suffix == IF n > 1 /\ SubSeq(name, n - 1, n) \in PublicSuffixes
                  THEN SubSeq(name, n - 1, n)
                  ELSE IF n > 0 /\ <<name[n]>> \in PublicSuffixes THEN <<name[n]>>
                  ELSE <<>>
        m == n - Len(suffix)
    IN  [subdomain |-> IF m > 1 THEN SubSeq(name, 1, m - 1) ELSE <<>>,
         domain |-> IF m > 0 THEN <<name[m]>> ELSE <<>>,
         suffix |-> suffix]

\* f"{domain}.{suffix}."
Registrable(e) == e.domain \o e.suffix

\* the labels of the dependencies dict that hold sets of names or addresses
DepLabels ==
    ({"", "ps_"} \X {"ns", "ipv4", "ipv6", "tld", "sld"})
        \cup {<<"", "nonhazardous_domains">>}

\* dependencies[label].add(x)
DepAdd(deps, label, x) == [deps EXCEPT ![label] = @ \cup {x}]

\* _extract_hostname_dependencies (lines 108-123)
extract_hostname_dependencies(deps, name, prefix, is_ns) ==
    LET e == extract(name)
        has_sld == e.domain # <<>> \/ Len(name) > 1
        name_sld == IF e.domain # <<>> THEN Registrable(e) ELSE name
        name_tld == IF e.domain # <<>> THEN e.suffix
                    ELSE IF Len(name) > 1 THEN Tail(name) ELSE name
        d1 == IF has_sld /\ (~is_ns \/ name_sld # name)
              THEN DepAdd(deps, <<prefix, "sld">>, name_sld)
              ELSE deps
    IN  DepAdd(d1, <<prefix, "tld">>, name_tld)

\* an NS set: the nameservers that are keys of the dict and their addresses
EmptyNS == [keys |-> {}, ips |-> {}]

\* the addresses a set of <<nameserver, ip>> pairs holds for a nameserver
IPsOf(pairs, ns) == {p[2] : p \in {q \in pairs : q[1] = ns}}

\* auth_ns[ns].add(ip) on a defaultdict(set)
NSAdd(a, ns, ip) == [keys |-> a.keys \cup {ns}, ips |-> a.ips \cup {<<ns, ip>>}]

\* auth_ns[ns] = ipset
NSPut(a, ns, ipset) ==
    [keys |-> a.keys \cup {ns},
     ips |-> {p \in a.ips : p[1] # ns} \cup {<<ns, ip>> : ip \in ipset}]

\* new_auth_ns.update(parsed_records) (line 543): a key of b replaces the
\* entry of a
update(a, b) ==
    [keys |-> a.keys \cup b.keys,
     ips |-> {p \in a.ips : p[1] \notin b.keys} \cup b.ips]

\* get_root_server (lines 87-88), for the chosen server
get_root_server(server) ==
    [keys |-> {server}, ips |-> {p \in root_servers : p[1] = server}]

\* QuerySummary(name, nameserver, rcodes) as QuerySummaryList.add stores it
QuerySummary(name, response) ==
    [name |-> name, nameserver |-> response.nameserver, rcodes |-> response.rcodes]

\* str.isdigit on a label
isdigit(label) == label \in {"0", "1", "2", "3", "4", "5", "6", "7", "8", "9"}

\* ------------------------------------------------------------------------
\* Node (node.py) and NodeList (nodelist.py)
\*
\* The objects live in a heap: graph.nodes[n] is the Node object n,
\* graph.lists[l] names the dict that NodeList l holds in its attribute
\* nodes, graph.dicts[d] is that dict as the sequence of its <<xid, node>>
\* items in insertion order.  Several NodeLists can hold the same dict.
\* ------------------------------------------------------------------------

\* an assignment: Op applied to the value of v, which is computed once
Bind(v, Op(_)) == CHOOSE res \in {Op(x) : x \in {v}} : TRUE

\* the trust types the resolver uses
TrustTypes == {"parent", "child", "provisioning"}

\* Node.xid: the prefix of the type and the name
xid(node) == <<node.type, node.name>>

\* Node.infer_node_type on a hostname
infer_node_type(name, is_ns) ==
    IF is_ns THEN "nameserver"
    ELSE IF Len(name) = 1 THEN "tld"
    ELSE IF extract(name).domain = <<>> THEN "public_suffix_tld"
    ELSE IF extract(name).subdomain = <<>> THEN "domain"
    ELSE "subdomain"

\* the name of the node Node.__init__ makes the new node trust for
\* provisioning (lines 40-56); the name itself when there is none
ParentName_self(name) == name
ParentName(name) ==
    LET e == extract(name)
    IN  IF e.subdomain # <<>> THEN Registrable(e)
        ELSE IF e.domain # <<>> THEN e.suffix
        ELSE IF Len(name) > 1 THEN Tail(name)
        ELSE name

\* the attributes Node.__init__ sets (lines 28-35)
NewNode(name, type) ==
    [name |-> name,
     type |-> type,
     is_hazardous |-> FALSE,
     is_misconfigured |-> FALSE,
     is_empty_nonterminal |-> FALSE,
     is_public_suffix |-> FALSE,
     misconfigurations |-> {},
     trusts |-> <<>>]

\* a heap without objects
EmptyHeap ==
    [nodes |-> <<>>, lists |-> <<>>, dicts |-> <<>>,
     calls |-> 0, depth |-> 0, raised |-> FALSE, overrun |-> FALSE, remerged |-> FALSE]

\* the xids of the Node objects
AllXids(S) == {xid(S.nodes[n]) : n \in 1..Len(S.nodes)}

\* NodeList(): the new list is Len(S.lists) + 1
NodeList_init(S) ==
    [S EXCEPT !.lists = Append(@, Len(S.dicts) + 1),
              !.dicts = Append(@, <<>>)]

\* xid in self.nodes
contains_never(S, L, x) == FALSE
contains(S, L, x) ==
    \E i \in 1..Len(S.dicts[S.lists[L]]) : S.dicts[S.lists[L]][i][1] = x

\* self.nodes[xid]
Stored(S, L, x) ==
    LET d == S.dicts[S.lists[L]]
    IN  d[CHOOSE i \in 1..Len(d) : d[i][1] = x][2]

\* key in node._trusts
HasKey(node, key) == \E i \in 1..Len(node.trusts) : node.trusts[i][1] = key

\* node._trusts[key] on the defaultdict(NodeList): the list
TrustListId(S, n, key) ==
    LET t == S.nodes[n].trusts
    IN  IF HasKey(S.nodes[n], key)
        THEN t[CHOOSE i \in 1..Len(t) : t[i][1] = key][2]
        ELSE Len(S.lists) + 1

\* node._trusts[key] on the defaultdict(NodeList): the heap, where a missing
\* key got a new NodeList
TrustList(S, n, key) ==
    IF HasKey(S.nodes[n], key)
    THEN S
    ELSE [NodeList_init(S) EXCEPT !.nodes[n].trusts = Append(@, <<key, Len(S.lists) + 1>>)]

\* the test of line 20
AlreadyMerged_never(merged_xids, x) == FALSE
AlreadyMerged(merged_xids, x) == x \in merged_xids

RECURSIVE add(_, _, _, _, _, _)
RECURSIVE merge_items(_, _, _, _, _, _, _)
RECURSIVE merge_trusts(_, _, _, _, _, _)

\* NodeList.merge (lines 39-42).  iter holds the dicts a loop is iterating
merge(S, L, other, merged_xids, is_public_suffix, iter) ==
    Bind(S.lists[other],
         LAMBDA d :
             Bind(merge_items(S, L, d, 1, merged_xids, is_public_suffix, iter \cup {d}),
                  LAMBDA r :
                      IF r.s.raised \/ r.s.overrun
                      THEN r
                      ELSE [s |-> [r.s EXCEPT !.lists[other] = r.s.lists[L]], m |-> r.m]))

\* the loop of line 40 from item i of the dict on
merge_items(S, L, d, i, merged_xids, is_public_suffix, iter) ==
    IF S.raised \/ S.overrun \/ i > Len(S.dicts[d])
    THEN [s |-> S, m |-> merged_xids]
    ELSE Bind(add(S, L, S.dicts[d][i][2], merged_xids, is_public_suffix, iter),
              LAMBDA r : merge_items(r.s, L, d, i + 1, r.m, is_public_suffix, iter))

\* the loop of lines 31-33 from item j of node._trusts on
merge_trusts(S, oldNode, node, j, merged_xids, iter) ==
    IF S.raised \/ S.overrun \/ j > Len(S.nodes[node].trusts)
    THEN [s |-> S, m |-> merged_xids]
    ELSE Bind(S.nodes[node].trusts[j],
              LAMBDA item :
                  \* item is <<key, nodelist>>; line 33 reads old_node._trusts[key]
                  Bind(TrustListId(S, oldNode, item[1]),
                       LAMBDA list :
                           Bind(TrustList(S, oldNode, item[1]),
                                LAMBDA S1 :
                                    Bind(merge(S1, list, item[2], merged_xids,
                                               S1.nodes[oldNode].is_public_suffix, iter),
                                         LAMBDA r : merge_trusts(r.s, oldNode, node, j + 1,
                                                                 r.m, iter)))))

\* the node of line 23 with the flags of lines 24-29 merged into it
MergeFlags(old, new) ==
    [old EXCEPT !.is_hazardous = @ \/ new.is_hazardous,
                !.is_misconfigured = @ \/ new.is_misconfigured,
                !.is_empty_nonterminal = @ \/ new.is_empty_nonterminal,
                !.is_public_suffix = @ \/ new.is_public_suffix,
                !.misconfigurations = @ \cup new.misconfigurations]

\* NodeList.add (lines 6-34).  The result holds the heap and the set the
\* caller's merged_xids names after the call: a call that got no set or an
\* empty one makes a set of its own.  An insertion into a dict that a loop
\* is iterating raises.  A call is followed no deeper than one level per xid
\* of the heap and one more: the calls above it merge distinct xids when no
\* xid is merged twice
add(S, L, node, merged_xids, is_public_suffix, iter) ==
    IF S.raised \/ S.overrun
    THEN [s |-> S, m |-> merged_xids]
    ELSE IF S.depth > Cardinality(AllXids(S))
    THEN [s |-> [S EXCEPT !.overrun = TRUE], m |-> merged_xids]
    ELSE Bind([S EXCEPT !.calls = @ + 1,
                        !.nodes[node].is_public_suffix = @ \/ is_public_suffix],
              LAMBDA S1 :
                  LET x == xid(S1.nodes[node])
                      d == S1.lists[L]
                  IN  IF ~contains(S1, L, x)
                      THEN [s |-> [S1 EXCEPT !.dicts[d] = Append(@, <<x, node>>),
                                             !.raised = d \in iter],
                            m |-> merged_xids]
                      ELSE IF AlreadyMerged(merged_xids, x)
                      THEN [s |-> S1, m |-> merged_xids]
                      ELSE Bind(Stored(S1, L, x),
                                LAMBDA oldNode :
                                    Bind([S1 EXCEPT
                                             !.nodes[oldNode] = MergeFlags(@, S1.nodes[node]),
                                             !.depth = @ + 1,
                                             !.remerged = @ \/ x \in merged_xids],
                                         LAMBDA S2 :
                                             Bind(merge_trusts(S2, oldNode, node, 1,
                                                               merged_xids \cup {x}, iter),
                                                  LAMBDA r :
                                                      [s |-> [r.s EXCEPT !.depth = @ - 1],
                                                       m |-> IF merged_xids = {}
                                                             THEN merged_xids
                                                             ELSE r.m]))))

\* Node.trusts (lines 115-116)
trusts(S, node, other, trust_type) ==
    Bind(TrustListId(S, node, trust_type),
         LAMBDA list :
             Bind(TrustList(S, node, trust_type),
                  LAMBDA S1 : add(S1, list, other, {}, FALSE, {}).s))

RECURSIVE create_node(_, _, _, _)
\* NodeList.create_node (lines 59-69) with the Node.__init__ it runs (lines
\* 36-67): the parent is created in the same list first.  The Node that is
\* built for an xid the list holds is dropped at line 64
create_node(S, L, name, type) ==
    Bind(ParentName(name),
         LAMBDA p :
             Bind(IF type \notin {"ipv4", "ipv6"} /\ p # name
                  THEN create_node(S, L, p, infer_node_type(p, FALSE))
                  ELSE [s |-> S, node |-> 0],
                  LAMBDA r :
                      IF contains(r.s, L, <<type, name>>)
                      THEN [s |-> r.s, node |-> Stored(r.s, L, <<type, name>>)]
                      ELSE LET n == Len(r.s.nodes) + 1
                           IN  Bind([r.s EXCEPT !.nodes = Append(@, NewNode(name, type))],
                                    LAMBDA S1 :
                                        Bind(IF r.node # 0
                                             THEN trusts(S1, n, r.node, "provisioning")
                                             ELSE S1,
                                             LAMBDA S2 :
                                                 [s |-> add(S2, L, n, {}, FALSE, {}).s,
                                                  node |-> n]))))

\* the heap between two operations
Settle(S) == [S EXCEPT !.calls = 0, !.depth = 0]

\* the xids a NodeList holds, and the edges of a node as <<trust type, xid>>
XidsOf(S, L) == {S.dicts[S.lists[L]][i][1] : i \in 1..Len(S.dicts[S.lists[L]])}
EdgesOf(S, n) ==
    UNION {{<<S.nodes[n].trusts[j][1], x>> : x \in XidsOf(S, S.nodes[n].trusts[j][2])} :
           j \in 1..Len(S.nodes[n].trusts)}

\* ---- NodeList operations driven on their own: a root list and a second one

MaxGraphOps == 4

RootList == 1
OtherList == 2

GraphNames == {Com, ACom}

\* the last operation
GOp(op, S, S0, L, node, present) ==
    [op |-> op, calls |-> S.calls, raised |-> S.raised, overrun |-> S.overrun,
     remerged |-> S.remerged,
     list |-> L, node |-> node, present |-> present,
     before |-> Len(S0.nodes)]

GCreateNode(L, name, is_ns) ==
    /\ gcount < MaxGraphOps
    /\ LET type == infer_node_type(name, is_ns)
           r == create_node(graph, L, name, type)
       IN  /\ graph' = Settle(r.s)
           /\ gop' = GOp("create_node", r.s, graph, L, r.node, contains(graph, L, <<type, name>>))
           /\ handles' = IF L = RootList THEN handles \cup {r.node} ELSE handles
    /\ gcount' = gcount + 1
    /\ UNCHANGED gframe

GAdd(L, node) ==
    /\ gcount < MaxGraphOps
    /\ LET r == add(graph, L, node, {}, FALSE, {})
       IN  /\ graph' = Settle(r.s)
           /\ gop' = GOp("add", r.s, graph, L, node, contains(graph, L, xid(graph.nodes[node])))
    /\ gcount' = gcount + 1
    /\ UNCHANGED <<handles, gframe>>

GMerge(L, other) ==
    /\ gcount < MaxGraphOps
    /\ LET r == merge(graph, L, other, {}, FALSE, {})
       IN  /\ graph' = Settle(r.s)
           /\ gop' = GOp("merge", r.s, graph, L, 0, FALSE)
    /\ gcount' = gcount + 1
    /\ UNCHANGED <<handles, gframe>>

GTrusts(node, other, trust_type) ==
    /\ gcount < MaxGraphOps
    /\ LET S == trusts(graph, node, other, trust_type)
       IN  /\ graph' = Settle(S)
           /\ gop' = GOp("trusts", S, graph, 0, node, FALSE)
    /\ gcount' = gcount + 1
    /\ UNCHANGED <<handles, gframe>>

\* node.is_hazardous = True on a node the caller holds
GSetFlag(node) ==
    /\ gcount < MaxGraphOps
    /\ ~graph.nodes[node].is_hazardous
    /\ graph' = [graph EXCEPT !.nodes[node].is_hazardous = TRUE]
    /\ gop' = GOp("flag", graph, graph, 0, node, FALSE)
    /\ gcount' = gcount + 1
    /\ UNCHANGED <<handles, gframe>>

GInit ==
    /\ graph = NodeList_init(NodeList_init(EmptyHeap))
    /\ gop = GOp("none", EmptyHeap, EmptyHeap, 0, 0, FALSE)
    /\ handles = {}
    /\ gcount = 0

GNext ==
    \/ \E L \in {RootList, OtherList}, name \in GraphNames, is_ns \in BOOLEAN :
           GCreateNode(L, name, is_ns)
    \/ \E node \in 1..Len(graph.nodes) : GAdd(RootList, node)
    \/ GMerge(RootList, OtherList)
    \/ \E node, other \in 1..Len(graph.nodes) : GTrusts(node, other, "parent")
    \/ \E node \in 1..Len(graph.nodes) : GSetFlag(node)

\* ------------------------------------------------------------------------
\* DNSResolver.map_name and DNSResolver._parse_records (dnsresolver.py)
\* ------------------------------------------------------------------------

\* every hostname a crawl can come across
AllNames == {RootName, Com, Net, ACom, BNet, NsACom, NsBNet, NicCom, NicNet,
             WwwACom, RootServer, Uk, CoUk, NicUk, RootServersNet}

\* the keys of dependencies['misconfigured_domains']
MisconfigurationTags == {"invalid_ns_record", "ip_ns_records", "missing_ns_records"}

\* the frame of a map_name call when it is entered
MapFrame(original_name, name, prefix, is_ns, current_node) ==
    [kind |-> "map_name",
     current_node |-> current_node,
     original_name |-> original_name,
     name |-> name,
     prefix |-> prefix,
     is_ns |-> is_ns,
     hazardous_domains_bound |-> FALSE,
     pc |-> "enter",
     i |-> 0,
     auth_ns |-> EmptyNS,
     new_auth_ns |-> EmptyNS,
     ip_list |-> <<>>,
     count |-> 1,
     has_valid_response |-> FALSE,
     all_nxdomain |-> TRUE,
     empty_nonterminal |-> TRUE,
     query_response_list |-> <<>>,
     query_response |-> NoneValue]

\* the frame of a _parse_records call at its loop over current_name_ns
ParseFrame(current_name, can_generate_dependencies, prefix, is_ns, ns_names, current_node, node_trust_type, node_nameservers) ==
    [kind |-> "_parse_records",
     current_node |-> current_node,
     node_trust_type |-> node_trust_type,
     node_nameservers |-> node_nameservers,
     current_name |-> current_name,
     can_generate_dependencies |-> can_generate_dependencies,
     prefix |-> prefix,
     is_ns |-> is_ns,
     current_name_ns |-> ns_names,
     auth_ns |-> EmptyNS,
     ns_name |-> RootName,
     pc |-> "loop"]

\* the running call
Top == stack[Len(stack)]

\* the calls that wait for it
Below == SubSeq(stack, 1, Len(stack) - 1)

ReplaceTop(st, frame) == [st EXCEPT ![Len(st)] = frame]

\* the caller of map_name goes on with the returned NS set: map_name at
\* line 418, _parse_records at lines 311-322
Resume(g, v) ==
    IF g.kind = "map_name"
    THEN [g EXCEPT !.auth_ns = v, !.pc = "loop"]
    ELSE [g EXCEPT !.auth_ns = IF g.ns_name \in v.keys
                                THEN NSPut(@, g.ns_name, IPsOf(v.ips, g.ns_name))
                                ELSE @,
                   !.pc = "loop"]

\* the name of the node of an address
IPName(ip) == <<ip>>

\* Node.infer_node_type on an address of the network
infer_ip_type(ip) == "ipv4"

\* node_trust_type in pass i of the loop of map_name (line 434)
TrustType(i) == IF i = 0 THEN "parent" ELSE "child"

RECURSIVE IPNodes(_, _, _, _)
\* the loops of lines 325-328 and 451-454: a node for each address, trusted
\* by the node of the nameserver
IPNodes(S, ips, ns_node, trust_type) ==
    IF ips = {}
    THEN S
    ELSE Bind(CHOOSE x \in ips : TRUE,
              LAMBDA ip :
                  Bind(create_node(S, RootList, IPName(ip), infer_ip_type(ip)),
                       LAMBDA r : IPNodes(trusts(r.s, ns_node, r.node, trust_type),
                                          ips \ {ip}, ns_node, trust_type)))

RECURSIVE NameserverNodes(_, _, _, _)
\* the loop of lines 447-455 over the entries of ip_list from position j on
NameserverNodes(S, ip_list, j, trust_type) ==
    IF j > Len(ip_list)
    THEN S
    ELSE Bind(create_node(S, RootList, ip_list[j][1], "nameserver"),
              LAMBDA r : NameserverNodes(IPNodes(r.s, {ip_list[j][2]}, r.node, trust_type),
                                         ip_list, j + 1, trust_type))

RECURSIVE BareNameserverNodes(_, _)
\* line 449 for the nameservers of auth_ns that have no address
BareNameserverNodes(S, names) ==
    IF names = {}
    THEN S
    ELSE Bind(CHOOSE x \in names : TRUE,
              LAMBDA ns : BareNameserverNodes(create_node(S, RootList, ns, "nameserver").s,
                                              names \ {ns}))

RECURSIVE RecordNodes(_, _, _, _, _, _, _)
\* the nodes the first loop of _parse_records makes (lines 219-224 and
\* 245-250): the NS records first, then the address records.  The result
\* holds the heap and node_nameservers
RecordNodes(S, records, current_name, current_node, trust_type, is_public_suffix, nn) ==
    LET mine == {x \in records : x.name = current_name}
        nsr == {x \in mine : x.rrtype = "NS"}
    IN  IF mine = {}
        THEN [s |-> S, nn |-> nn]
        ELSE Bind(IF nsr # {} THEN CHOOSE y \in nsr : TRUE ELSE CHOOSE y \in mine : TRUE,
                  LAMBDA x :
                      Bind(IF x.rrtype = "NS"
                           THEN create_node(S, RootList, x.data, infer_node_type(x.data, TRUE))
                           ELSE create_node(S, RootList, IPName(x.data), infer_ip_type(x.data)),
                           LAMBDA r :
                               Bind([r.s EXCEPT !.nodes[r.node].is_public_suffix =
                                                    is_public_suffix],
                                    LAMBDA S1 :
                                        RecordNodes(trusts(S1, current_node, r.node, trust_type),
                                                    records \ {x}, current_name, current_node,
                                                    trust_type, is_public_suffix,
                                                    IF x.rrtype = "NS"
                                                    THEN (x.data :> r.node) @@ nn
                                                    ELSE nn))))

\* lines 324-328 after map_name returned v to _parse_records
ResumeGraph(S, g, v) ==
    IF /\ g.kind = "_parse_records"
       /\ g.ns_name \in v.keys
       /\ g.ns_name \in DOMAIN g.node_nameservers
    THEN IPNodes(S, IPsOf(v.ips, g.ns_name), g.node_nameservers[g.ns_name], g.node_trust_type)
    ELSE S

\* the dict get_host_dependencies returns (lines 650-679)
HostDependencies(name, deps, hazardous, misconfigured) ==
    [query |-> name,
     dependencies |-> [l \in {"", "ps_"} \X {"ns", "ipv4", "ipv6", "tld", "sld"} |-> deps[l]],
     hazardous_domains |-> hazardous,
     misconfigured_domains |-> misconfigured]

\* map_name returns v with the heap S; get_host_dependencies (lines
\* 650-679) returns the summary when it was the outermost call
MapReturn(v, S, deps, hazardous, misconfigured) ==
    IF Below = <<>>
    THEN /\ stack' = <<>>
         /\ wresult' = "returned"
         /\ graph' = Settle(S)
         /\ summaries' = Append(summaries,
                                HostDependencies(target, deps, hazardous, misconfigured))
    ELSE /\ stack' = ReplaceTop(Below, Resume(Below[Len(Below)], v))
         /\ wresult' = wresult
         /\ graph' = Settle(ResumeGraph(S, Below[Len(Below)], v))
         /\ summaries' = summaries

\* an exception leaves every frame and get_host_dependencies
Raise ==
    /\ stack' = <<>>
    /\ wresult' = "raised"
    /\ summaries' = summaries

\* the calls of get_host_dependencies made on one resolver
MaxCrawls == 2

\* get_host_dependencies up to its call of map_name (lines 630-647)
Crawl(name) ==
    /\ crawls < MaxCrawls
    /\ crawls' = crawls + 1
    /\ target' = name
    /\ nameserver_ip' = root_servers
    /\ dependencies' = [l \in DepLabels |-> {}]
    /\ hazardous_domains' = NoneValue
    /\ misconfigured_domains' = NoneValue
    /\ flags' = {}
    /\ loops' = [n \in AllNames |-> 0]
    /\ \E r \in {create_node(NodeList_init(EmptyHeap), RootList, name,
                             infer_node_type(name, FALSE))} :
           /\ graph' = Settle(r.s)
           /\ stack' = <<MapFrame(name, name, "", FALSE, r.node)>>
    /\ wresult' = "running"
    /\ UNCHANGED <<past_resolutions, active_resolutions, zones, answers, faults,
                   summaries, wframe>>

\* the first call on a resolver
CrawlStart(name) ==
    /\ wresult = "idle"
    /\ Crawl(name)

\* a later call on the resolver, after the one before it ended
CrawlAgain(name) ==
    /\ wresult \in {"returned", "raised"}
    /\ Crawl(name)

\* map_name from its entry to the call for the superdomain or to the loop
\* (lines 367-425)
MapEnter ==
    /\ wresult = "running" /\ stack # <<>>
    /\ Top.kind = "map_name" /\ Top.pc = "enter"
    /\ LET f == Top
           first == hazardous_domains = NoneValue
           isTLD == Len(f.name) <= 1
           prefix == IF extract(f.name).domain = <<>> THEN "ps_" ELSE f.prefix
           g == [f EXCEPT !.hazardous_domains_bound = first,
                          !.prefix = prefix]
           hazardous == IF first THEN <<>> ELSE hazardous_domains
           misconfigured == IF first THEN [tag \in MisconfigurationTags |-> <<>>]
                            ELSE misconfigured_domains
       IN  \* line 369
           \E S0 \in {add(graph, RootList, f.current_node, {}, FALSE, {}).s} :
           /\ hazardous_domains' = hazardous
           /\ misconfigured_domains' = misconfigured
           /\ IF f.name \in DOMAIN past_resolutions
              THEN MapReturn(past_resolutions[f.name], S0, dependencies, hazardous,
                             misconfigured)
              ELSE IF isTLD
              THEN \E server \in {p[1] : p \in root_servers} :
                       /\ stack' = ReplaceTop(stack, [g EXCEPT !.auth_ns = get_root_server(server),
                                                               !.pc = "loop"])
                       /\ wresult' = wresult
                       /\ graph' = Settle(S0)
                       /\ summaries' = summaries
              ELSE \E r \in {create_node(S0, RootList, Tail(f.name),
                                              infer_node_type(Tail(f.name), FALSE))} :
                       /\ stack' = Append(ReplaceTop(stack, [g EXCEPT !.pc = "superdomain"]),
                                          MapFrame(f.original_name, Tail(f.name), prefix, FALSE,
                                                   r.node))
                       /\ wresult' = wresult
                       /\ graph' = Settle(trusts(r.s, f.current_node, r.node, "provisioning"))
                       /\ summaries' = summaries
    /\ UNCHANGED <<past_resolutions, active_resolutions, nameserver_ip, dependencies,
                   flags, zones, target, answers, faults, loops, crawls,
                   wframe>>

\* the kinds of answer the network may still give to a query
AllowedKinds == IF faults < MaxFaults THEN ResponseKinds ELSE {"data"}

\* one pass of the loop, from line 433 to the gather of line 463: the
\* queries of the phase are answered
MapPhase ==
    /\ wresult = "running" /\ stack # <<>>
    /\ Top.kind = "map_name" /\ Top.pc = "loop"
    /\ LET f == Top
           pairs == f.auth_ns.ips
           n == Cardinality(pairs)
       IN  \E ip_list \in [1..n -> pairs] :
               /\ \A j, k \in 1..n : ip_list[j] = ip_list[k] => j = k
               /\ LET new == {<<f.name, p[2]>> : p \in pairs} \ DOMAIN answers
                  IN  \E kinds \in [new -> ResponseKinds] :
                          LET nf == Cardinality({q \in new : kinds[q] # "data"})
                              asked == [q \in new |->
                                           WalkerResponse(zones, kinds[q], q[1], q[2])]
                                       @@ answers
                          IN  /\ faults + nf <= MaxFaults
                              /\ faults' = faults + nf
                              /\ answers' = asked
                              /\ stack' = ReplaceTop(stack,
                                     [f EXCEPT !.new_auth_ns = EmptyNS,
                                               !.query_response_list =
                                                   [j \in 1..n |-> asked[<<f.name, ip_list[j][2]>>]],
                                               !.has_valid_response = FALSE,
                                               !.all_nxdomain = TRUE,
                                               !.empty_nonterminal = TRUE,
                                               !.ip_list = ip_list,
                                               !.count = 1,
                                               !.pc = "process"])
                              /\ loops' = IF f.i = 0
                                          THEN [loops EXCEPT ![f.name] = @ + 1]
                                          ELSE loops
                              /\ graph' = Settle(BareNameserverNodes(
                                     NameserverNodes(graph, ip_list, 1, TrustType(f.i)),
                                     f.auth_ns.keys \ {p[1] : p \in pairs}))
    /\ UNCHANGED <<past_resolutions, active_resolutions, nameserver_ip, dependencies,
                   hazardous_domains, misconfigured_domains, flags, zones, target,
                   wresult, crawls, summaries, wframe>>

\* the first loop of _parse_records and line 261: the nameservers of
\* current_name found in the records (lines 209-255)
current_name_ns(current_name, records, is_ns) ==
    {rec.data : rec \in {x \in records : x.rrtype = "NS" /\ endswith(current_name, x.name)}}
    \cup (IF is_ns /\ \E x \in records : x.rrtype \in {"A", "AAAA"} /\ x.name = current_name
          THEN {current_name}
          ELSE {})

\* the glue the records add to nameserver_ip (line 233)
Glue(records) == {<<x.name, x.data>> : x \in {y \in records : y.rrtype \in {"A", "AAAA"}}}

\* the glue line 233 adds to a set that nameserver_ip shares with
\* root_servers: defaultdict(set, self.root_servers) copies the table, not
\* the sets in it (lines 53 and 631)
SharedGlue(records) == {p \in Glue(records) : \E q \in root_servers : q[1] = p[1]}

\* the dependencies the first loop of _parse_records and line 261 record
ParsedDependencies(deps, current_name, records, prefix, is_ns) ==
    LET d1 == [deps EXCEPT
                  ![<<prefix, "ns">>] =
                      @ \cup {x.data : x \in {y \in records :
                                 y.rrtype = "NS" /\ endswith(current_name, y.name)}},
                  ![<<prefix, "ipv4">>] =
                      @ \cup {x.data : x \in {y \in records : y.rrtype = "A"}},
                  ![<<prefix, "ipv6">>] =
                      @ \cup {x.data : x \in {y \in records : y.rrtype = "AAAA"}}]
    IN  extract_hostname_dependencies(d1, current_name, "", is_ns)

\* one pass of the loop over ip_list, from line 466 to the call of
\* _parse_records at line 523 or to a continue
MapProcess ==
    /\ wresult = "running" /\ stack # <<>>
    /\ Top.kind = "map_name" /\ Top.pc = "process"
    /\ Top.count <= Len(Top.ip_list)
    /\ LET f == Top
           nameserver == f.ip_list[f.count][1]
           ip == f.ip_list[f.count][2]
           r1 == answers[<<f.name, ip>>]
           answered1 == r1.data = {} /\ "timeout" \notin DOMAIN r1.rcodes
           nxdomain == answered1 /\ r1.rcodes["NS"] = NXDOMAIN
           noerror1 == answered1 /\ r1.rcodes["NS"] = NOERROR
           retry == answered1 /\ ~nxdomain /\ ~noerror1 /\ f.name # f.original_name
           q2 == <<f.original_name, ip>>
           needs == retry /\ q2 \notin DOMAIN answers
           isTLD == Len(f.name) <= 1
           f1 == [f EXCEPT
                     !.has_valid_response = @ \/ r1.data # {} \/ answered1,
                     !.all_nxdomain = @ /\ ~(r1.data # {} \/ (answered1 /\ ~nxdomain)),
                     !.empty_nonterminal =
                         @ /\ ~(r1.data # {} \/ (answered1 /\ ~noerror1))]
       IN  \E kind \in IF needs THEN AllowedKinds ELSE {"data"} :
               LET r2 == IF ~retry THEN r1
                         ELSE IF needs
                         THEN WalkerResponse(zones, kind, f.original_name, ip)
                         ELSE answers[q2]
                   noerror2 == /\ retry
                               /\ r2.data = {}
                               /\ "timeout" \notin DOMAIN r2.rcodes
                               /\ r2.rcodes["NS"] = NOERROR
                   query_name == IF retry THEN f.original_name ELSE f.name
                   f2 == [f1 EXCEPT !.query_response_list =
                                        IF retry THEN Append(@, r2) ELSE @,
                                    !.query_response = r2]
                   can_dep == ~isTLD
                   nameserver_node == Stored(graph, RootList, <<"nameserver", nameserver>>)
               IN  /\ answers' = IF needs THEN (q2 :> r2) @@ answers ELSE answers
                   /\ faults' = IF needs /\ kind # "data" THEN faults + 1 ELSE faults
                   /\ IF noerror1 \/ noerror2
                      THEN /\ stack' = ReplaceTop(stack,
                                  [f2 EXCEPT !.new_auth_ns = NSAdd(@, nameserver, ip),
                                             !.count = @ + 1])
                           /\ graph' = Settle(trusts(graph, f.current_node, nameserver_node,
                                                     TrustType(f.i)))
                           /\ UNCHANGED <<nameserver_ip, dependencies, root_servers>>
                      ELSE /\ \E rn \in {RecordNodes(graph, r2.data, query_name,
                                                        f.current_node, TrustType(f.i),
                                                        f.prefix = "ps_", <<>>)} :
                                  /\ stack' = Append(
                                         ReplaceTop(stack, [f2 EXCEPT !.pc = "parse"]),
                                         ParseFrame(query_name, can_dep, f.prefix, f.is_ns,
                                                    current_name_ns(query_name, r2.data, f.is_ns),
                                                    f.current_node, TrustType(f.i), rn.nn))
                                  /\ graph' = Settle(rn.s)
                           /\ nameserver_ip' = nameserver_ip \cup Glue(r2.data)
                           /\ root_servers' = root_servers \cup SharedGlue(r2.data)
                           /\ dependencies' =
                                  IF can_dep
                                  THEN ParsedDependencies(dependencies, query_name,
                                                          r2.data, f.prefix, f.is_ns)
                                  ELSE dependencies
    /\ UNCHANGED <<past_resolutions, active_resolutions, hazardous_domains,
                   misconfigured_domains, flags, zones, target, wresult, loops,
                   crawls, summaries, wrest>>

\* OnHold, were the cycle-detection set never consulted
OnHold_never(sld) == FALSE

\* line 290: the registrable form of the nameserver is being resolved
OnHold(sld) == sld \in active_resolutions

\* one pass of the loop of _parse_records over current_name_ns (lines
\* 267-328), up to the call of map_name when there is one
ParseLoop ==
    /\ wresult = "running" /\ stack # <<>>
    /\ Top.kind = "_parse_records" /\ Top.pc = "loop"
    /\ \E ns_name \in Top.current_name_ns :
           LET g == [Top EXCEPT !.current_name_ns = @ \ {ns_name}]
               e_ns == extract(ns_name)
               e_cur == extract(g.current_name)
               ns_name_sld == Registrable(e_ns)
               deps == IF g.can_generate_dependencies /\ ns_name # RootName
                       THEN extract_hostname_dependencies(dependencies, ns_name,
                                                          g.prefix, TRUE)
                       ELSE dependencies
               \* lines 302-307
               rns == IF ns_name \in DOMAIN g.node_nameservers
                      THEN [s |-> graph, node |-> g.node_nameservers[ns_name]]
                      ELSE Bind(create_node(graph, RootList, ns_name,
                                            infer_node_type(ns_name, TRUE)),
                                LAMBDA r :
                                    [s |-> [r.s EXCEPT !.nodes[r.node].is_public_suffix =
                                                           (g.prefix = "ps_")],
                                     node |-> r.node])
           IN  IF ns_name = RootName
               THEN /\ stack' = ReplaceTop(stack, [g EXCEPT !.auth_ns = NSPut(@, ns_name, {})])
                    /\ UNCHANGED <<dependencies, active_resolutions, graph>>
               ELSE IF \E p \in nameserver_ip : p[1] = ns_name
               THEN /\ stack' = ReplaceTop(stack,
                           [g EXCEPT !.auth_ns = NSPut(@, ns_name, IPsOf(nameserver_ip, ns_name))])
                    /\ dependencies' = deps
                    /\ graph' = IF ns_name \in DOMAIN g.node_nameservers
                                THEN Settle(IPNodes(graph, IPsOf(nameserver_ip, ns_name),
                                                    g.node_nameservers[ns_name],
                                                    g.node_trust_type))
                                ELSE graph
                    /\ UNCHANGED active_resolutions
               ELSE IF g.can_generate_dependencies /\ OnHold(ns_name_sld)
               THEN /\ stack' = ReplaceTop(stack, g)
                    /\ dependencies' =
                           DepAdd(deps, <<"", "nonhazardous_domains">>, g.current_name)
                    /\ UNCHANGED <<active_resolutions, graph>>
               ELSE IF /\ g.can_generate_dependencies
                       /\ (e_ns.domain # e_cur.domain \/ e_ns.suffix # e_cur.suffix)
               THEN /\ active_resolutions' = active_resolutions \cup {ns_name_sld}
                    /\ stack' = Append(
                           ReplaceTop(stack, [g EXCEPT !.ns_name = ns_name, !.pc = "map_name"]),
                           MapFrame(ns_name, ns_name, g.prefix, TRUE, rns.node))
                    /\ dependencies' = deps
                    /\ graph' = Settle(rns.s)
               ELSE /\ stack' = ReplaceTop(stack, g)
                    /\ dependencies' = deps
                    /\ UNCHANGED <<active_resolutions, graph>>
    /\ UNCHANGED <<past_resolutions, nameserver_ip, hazardous_domains,
                   misconfigured_domains, flags, zones, target, answers, faults,
                   wresult, loops, crawls, summaries, wframe>>

\* _parse_records returns auth_ns and map_name goes on to the next entry of
\* ip_list (lines 329, 532-543)
ParseReturn ==
    /\ wresult = "running" /\ stack # <<>>
    /\ Top.kind = "_parse_records" /\ Top.pc = "loop"
    /\ Top.current_name_ns = {}
    /\ LET parsed_records == Top.auth_ns
           f == Below[Len(Below)]
       IN  /\ misconfigured_domains' =
                  IF RootName \in parsed_records.keys
                  THEN [misconfigured_domains EXCEPT
                           !["invalid_ns_record"] =
                               Append(@, QuerySummary(f.name, f.query_response))]
                  ELSE misconfigured_domains
           /\ stack' = ReplaceTop(Below,
                  [f EXCEPT !.new_auth_ns = update(@, parsed_records),
                            !.count = @ + 1,
                            !.pc = "process"])
    /\ UNCHANGED <<past_resolutions, active_resolutions, nameserver_ip, dependencies,
                   hazardous_domains, flags, zones, target, answers, faults,
                   wresult, loops, crawls, summaries, graph, wframe>>

Summaries_none(name, responses, j) == <<>>
RECURSIVE Summaries(_, _, _)
\* the loop of lines 568-574 from position j on: one summary per response
\* of the phase
Summaries(name, responses, j) ==
    IF j > Len(responses)
    THEN <<>>
    ELSE <<QuerySummary(name, responses[j])>> \o Summaries(name, responses, j + 1)

\* the test of lines 549-550
NxdomainConsensus(f) ==
    /\ f.has_valid_response
    /\ f.all_nxdomain
    /\ f.new_auth_ns.keys = {}
    /\ f.name \notin dependencies[<<"", "nonhazardous_domains">>]

\* lines 586-592: the hold on the name ends, the result is cached and returned
MapFinish(f, S, deps, hazardous, misconfigured) ==
    /\ active_resolutions' = active_resolutions \ {f.name}
    /\ past_resolutions' = (f.name :> f.new_auth_ns) @@ past_resolutions
    /\ MapReturn(f.new_auth_ns, S, deps, hazardous, misconfigured)

\* the end of a pass of the loop of map_name (lines 549-585) and, after a
\* break or the second pass, the end of map_name
MapPhaseEnd ==
    /\ wresult = "running" /\ stack # <<>>
    /\ Top.kind = "map_name" /\ Top.pc = "process"
    /\ Top.count > Len(Top.ip_list)
    /\ LET f == Top
           summaries_of_phase == Summaries(f.name, f.query_response_list, 1)
           n == f.current_node
       IN  IF NxdomainConsensus(f)
           THEN IF f.i = 0 /\ f.name = RootName
                THEN \* name_parts[-1] of an empty list
                     /\ Raise
                     /\ UNCHANGED <<flags, hazardous_domains, misconfigured_domains,
                                    dependencies, active_resolutions, past_resolutions,
                                    graph>>
                ELSE IF f.i = 0 /\ ~isdigit(f.name[Len(f.name)]) /\ ~f.hazardous_domains_bound
                THEN \* line 562 reads a local that was never assigned
                     /\ flags' = flags \cup {<<f.name, "is_hazardous">>}
                     /\ graph' = [graph EXCEPT !.nodes[n].is_hazardous = TRUE]
                     /\ Raise
                     /\ UNCHANGED <<hazardous_domains, misconfigured_domains,
                                    dependencies, active_resolutions, past_resolutions>>
                ELSE LET hazardous ==
                             IF f.i = 0 /\ ~isdigit(f.name[Len(f.name)])
                             THEN hazardous_domains \o summaries_of_phase
                             ELSE hazardous_domains
                         misconfigured ==
                             IF f.i = 0 /\ isdigit(f.name[Len(f.name)])
                             THEN [misconfigured_domains EXCEPT
                                      !["ip_ns_records"] = @ \o summaries_of_phase]
                             ELSE IF f.i = 0
                             THEN misconfigured_domains
                             ELSE [misconfigured_domains EXCEPT
                                      !["missing_ns_records"] = @ \o summaries_of_phase]
                         deps == extract_hostname_dependencies(dependencies, f.name,
                                                               f.prefix, f.is_ns)
                         S == IF f.i = 0 /\ isdigit(f.name[Len(f.name)])
                              THEN [graph EXCEPT !.nodes[n].is_misconfigured = TRUE,
                                                 !.nodes[n].misconfigurations =
                                                     @ \cup {"ip_ns_records"}]
                              ELSE IF f.i = 0
                              THEN [graph EXCEPT !.nodes[n].is_hazardous = TRUE]
                              ELSE [graph EXCEPT !.nodes[n].is_misconfigured = TRUE,
                                                 !.nodes[n].misconfigurations =
                                                     @ \cup {"missing_ns_records"}]
                     IN  /\ flags' = flags \cup
                                (IF f.i = 0 /\ isdigit(f.name[Len(f.name)])
                                 THEN {<<f.name, "is_misconfigured">>, <<f.name, "ip_ns_records">>}
                                 ELSE IF f.i = 0
                                 THEN {<<f.name, "is_hazardous">>}
                                 ELSE {<<f.name, "is_misconfigured">>,
                                       <<f.name, "missing_ns_records">>})
                         /\ hazardous_domains' = hazardous
                         /\ misconfigured_domains' = misconfigured
                         /\ dependencies' = deps
                         /\ MapFinish(f, S, deps, hazardous, misconfigured)
           ELSE LET S == IF f.empty_nonterminal
                         THEN [graph EXCEPT !.nodes[n].is_empty_nonterminal = TRUE]
                         ELSE graph
                IN  /\ flags' = IF f.empty_nonterminal
                                THEN flags \cup {<<f.name, "is_empty_nonterminal">>}
                                ELSE flags
                    /\ UNCHANGED <<hazardous_domains, misconfigured_domains, dependencies>>
                    /\ IF f.i = 0
                       THEN /\ stack' = ReplaceTop(stack,
                                   [f EXCEPT !.auth_ns = f.new_auth_ns, !.i = 1, !.pc = "loop"])
                            /\ graph' = S
                            /\ UNCHANGED <<wresult, active_resolutions, past_resolutions,
                                           summaries>>
                       ELSE MapFinish(f, S, dependencies, hazardous_domains,
                                      misconfigured_domains)
    /\ UNCHANGED <<nameserver_ip, zones, target, answers, faults, loops, crawls,
                   wframe>>

\* DNSResolver.__init__ (lines 48-53) on a network, before any crawl
WInit ==
    /\ zones \in ZoneConfigs
    /\ past_resolutions = <<>>
    /\ active_resolutions = {}
    /\ root_servers = ROOT_SERVERS
    /\ nameserver_ip = root_servers
    /\ dependencies = [l \in DepLabels |-> {}]
    /\ hazardous_domains = NoneValue
    /\ misconfigured_domains = NoneValue
    /\ flags = {}
    /\ target = RootName
    /\ answers = <<>>
    /\ faults = 0
    /\ stack = <<>>
    /\ wresult = "idle"
    /\ loops = [n \in AllNames |-> 0]
    /\ crawls = 0
    /\ summaries = <<>>

WNext ==
    \/ \E name \in Targets : CrawlStart(name)
    \/ MapEnter
    \/ MapPhase
    \/ MapProcess
    \/ ParseLoop
    \/ ParseReturn
    \/ MapPhaseEnd

\* a name that is a public suffix and no TLD
SuffixTargets == {CoUk}

\* the crawl of a public suffix
SuffixNext ==
    \/ \E name \in SuffixTargets : CrawlStart(name)
    \/ MapEnter
    \/ MapPhase
    \/ MapProcess
    \/ ParseLoop
    \/ ParseReturn
    \/ MapPhaseEnd

\* a name whose zone is served by a root server
RootZoneTargets == {RootServersNet}

\* the crawls of a resolver that is asked for the zone of the root servers
RootZoneNext ==
    \/ \E name \in RootZoneTargets : CrawlStart(name)
    \/ \E name \in RootZoneTargets : CrawlAgain(name)
    \/ MapEnter
    \/ MapPhase
    \/ MapProcess
    \/ ParseLoop
    \/ ParseReturn
    \/ MapPhaseEnd

\* the crawls a resolver runs one after the other
RNext ==
    \/ WNext
    \/ \E name \in Targets : CrawlAgain(name)

\* a nameserver and a domain that can be delegated to it
SharedTargets == {NsBNet, ACom}

\* the crawls of a resolver that is asked for a nameserver and for a domain
SharedNext ==
    \/ \E name \in SharedTargets : CrawlStart(name)
    \/ \E name \in SharedTargets : CrawlAgain(name)
    \/ MapEnter
    \/ MapPhase
    \/ MapProcess
    \/ ParseLoop
    \/ ParseReturn
    \/ MapPhaseEnd

\* ------------------------------------------------------------------------
\* One pass of the loop of map_name over the responses of a phase
\* (dnsresolver.py lines 464-543), for a name whose nameservers are in its
\* own domain, so that _parse_records starts no resolution
\* ------------------------------------------------------------------------

\* the name the phase queries
PhaseName == ACom

\* the nameservers of the phase and the addresses they can have
PhaseNameservers == {NsACom, WwwACom}

PhaseIPs == {"ipA", "ipW"}

\* number of <<nameserver, ip>> entries of ip_list
MaxPhaseResponses == 2

\* the records a nameserver answers with: NS records of the name and at
\* most one address record; no records with rcode NOERROR otherwise
PhaseRecords ==
    {{NSRecord(PhaseName, h) : h \in N} \cup {ARecord(p[1], p[2]) : p \in G} :
        N \in SUBSET PhaseNameservers,
        G \in {{}} \cup {{p} : p \in PhaseNameservers \X PhaseIPs}}

\* the QueryResponse for the records; every rcode is NOERROR
PhaseResponse(records, ip) ==
    [data |-> records,
     rcodes |-> [t \in {"NS", "A", "AAAA"} |-> NOERROR],
     domain |-> PhaseName,
     nameserver |-> ip]

\* _parse_records for nameservers in the domain of current_name (lines
\* 209-233 and 288-289): the glue goes to nameserver_ip, and a nameserver of
\* the name that nameserver_ip knows gets a copy of its addresses
parse_records(cache, current_name, records) ==
    LET known == cache \cup Glue(records)
        names == {h \in current_name_ns(current_name, records, FALSE) :
                     \* lines 270-272: "." gets an empty set of addresses
                     h = RootName \/ \E p \in known : p[1] = h}
    IN  [nameserver_ip |-> known,
         auth_ns |-> [keys |-> names, ips |-> {p \in known : p[1] \in names}]]

\* one pass of the loop over ip_list (lines 464-543) on the response of
\* the entry <<nameserver, ip>>
PhaseItem(acc, entry, response) ==
    IF response.data = {}
    THEN \* rcode NOERROR: the address is kept for the next phase (line 487)
         [new_auth_ns |-> NSAdd(acc.new_auth_ns, entry[1], entry[2]),
          nameserver_ip |-> acc.nameserver_ip,
          contributed |-> acc.contributed \cup {entry}]
    ELSE Bind(parse_records(acc.nameserver_ip, PhaseName, response.data),
              LAMBDA parsed :
                  [new_auth_ns |-> update(acc.new_auth_ns, parsed.auth_ns),
                   nameserver_ip |-> parsed.nameserver_ip,
                   contributed |-> acc.contributed \cup parsed.auth_ns.ips])

RECURSIVE PhaseRun(_, _, _, _)
\* the loop over ip_list taken in the given order of its entries
PhaseRun(acc, order, j, responses) ==
    IF j > Len(order)
    THEN acc
    ELSE Bind(PhaseItem(acc, phase_ip_list[order[j]], responses[order[j]]),
              LAMBDA next : PhaseRun(next, order, j + 1, responses))

\* the pass has not begun
PhaseBegin ==
    /\ phase_new_auth_ns = EmptyNS
    /\ phase_count = 1
    /\ phase_cache0 = phase_nameserver_ip
    /\ phase_contributed = {}
    /\ phase_invalid_ns_record = <<>>

\* the pass that is not made
PhaseIdle ==
    /\ phase_ip_list = <<>>
    /\ phase_responses = <<>>
    /\ phase_nameserver_ip = {}
    /\ PhaseBegin

\* any ip_list, any responses drawn from the given sets of records, and a
\* glue cache that holds the addresses of ip_list or, reset by a later crawl
\* (line 631), none of them
PhaseResponsesFrom(recordsets) ==
    /\ \E n \in 1..MaxPhaseResponses :
           /\ phase_ip_list \in [1..n -> PhaseNameservers \X PhaseIPs]
           /\ \A j, k \in 1..n : phase_ip_list[j] = phase_ip_list[k] => j = k
           /\ \E records \in [1..n -> recordsets] :
                  phase_responses =
                      [j \in 1..n |-> PhaseResponse(records[j], phase_ip_list[j][2])]
    /\ phase_nameserver_ip \in {{}, {phase_ip_list[j] : j \in 1..Len(phase_ip_list)}}
    /\ PhaseBegin

PhaseResponsesInit == PhaseResponsesFrom(PhaseRecords)

\* the records of a zone whose NS rdata may be the root label
InvalidNsRecords ==
    PhaseRecords \cup {rs \cup {NSRecord(PhaseName, RootName)} : rs \in PhaseRecords}

\* the loop handles the response of the next entry of ip_list
PhaseProcess ==
    /\ phase_count <= Len(phase_ip_list)
    /\ \E next \in {PhaseItem([new_auth_ns |-> phase_new_auth_ns,
                                 nameserver_ip |-> phase_nameserver_ip,
                                 contributed |-> phase_contributed],
                                phase_ip_list[phase_count],
                                phase_responses[phase_count])} :
           /\ phase_new_auth_ns' = next.new_auth_ns
           /\ phase_nameserver_ip' = next.nameserver_ip
           /\ phase_contributed' = next.contributed
    \* lines 532-540
    /\ phase_invalid_ns_record' =
           IF /\ phase_responses[phase_count].data # {}
              /\ RootName \in parse_records(phase_nameserver_ip, PhaseName,
                                            phase_responses[phase_count].data).auth_ns.keys
           THEN Append(phase_invalid_ns_record,
                       QuerySummary(PhaseName, phase_responses[phase_count]))
           ELSE phase_invalid_ns_record
    /\ phase_count' = phase_count + 1
    /\ UNCHANGED <<phase_ip_list, phase_responses, phase_cache0, pframe>>

PhaseNext == PhaseProcess

\* ------------------------------------------------------------------------
\* The specifications
\* ------------------------------------------------------------------------

\* a resolver on one network whose walker and limiter stay as constructed
QFrameInit ==
    /\ LInit
    /\ WInit
    /\ GInit
    /\ zones = [a |-> [ns |-> {NsACom}, glue |-> TRUE], b |-> [ns |-> {NsBNet}, glue |-> TRUE]]
    /\ CInit
    /\ SInit
    /\ RefInit

\* a query engine that stays as constructed
QIdle ==
    /\ QInit
    /\ MAX_CONCURRENT_REQUESTS = MaxPermits

Init == QInit /\ QFrameInit /\ CallIdle /\ PhaseIdle

Spec == Init /\ [][Next]_vars

LimiterInit == QIdle /\ QFrameInit /\ CallIdle /\ PhaseIdle

LimiterSpec == LimiterInit /\ [][LNext]_vars

\* the event loop runs every task that is ready and every timer that is due
LimiterFairness ==
    /\ \A t \in Tasks : WF_vars(RateLimiter_run(t)) /\ WF_vars(RateLimiter_return(t))
    /\ WF_vars(RateLimiter_reset_limit)
    /\ WF_vars(SleepTick)

\* the limiter under an event loop that keeps running
FairLimiterSpec == LimiterInit /\ [][ScheduledNext]_vars /\ LimiterFairness

WalkerInit == QIdle /\ LInit /\ WInit /\ CInit /\ SInit /\ GInit /\ RefInit /\ CallIdle /\ PhaseIdle

\* a root NodeList, a second one, and any sequence of operations on them
GraphInit == QIdle /\ QFrameInit /\ CallIdle /\ PhaseIdle

GraphSpec == GraphInit /\ [][GNext]_vars

\* one cache and any sequence of get and set calls on it
CacheInit == QIdle /\ QFrameInit /\ CallIdle /\ PhaseIdle

CacheSpec == CacheInit /\ [][CNext]_vars

\* requests on an engine, then the exit of its scope
ShutdownInit == QIdle /\ QFrameInit /\ CallIdle /\ PhaseIdle

ShutdownSpec == ShutdownInit /\ [][SNext]_vars

WalkerSpec == WalkerInit /\ [][WNext]_vars

\* every step of a crawl that can be taken is taken in the end
WalkerFairSpec == WalkerSpec /\ WF_vars(WNext)

\* one resolver and the crawls it runs one after the other
ResolverInit == WalkerInit

ResolverSpec == ResolverInit /\ [][RNext]_vars

\* the crawl of a name that has no registrable domain
SuffixSpec == WalkerInit /\ [][SuffixNext]_vars

\* one resolver that crawls the zone of the root servers
RootZoneSpec == ResolverInit /\ [][RootZoneNext]_vars

\* one resolver that crawls a nameserver and a domain one after the other
SharedNameserverSpec == ResolverInit /\ [][SharedNext]_vars

\* one StringReferenceCache and any sequence of set calls on it
RefCacheInit == QIdle /\ QFrameInit /\ CallIdle /\ PhaseIdle

RefCacheSpec == RefCacheInit /\ [][RefNext]_vars

\* two calls of query on a new PyDNS
CallsInit == QIdle /\ QFrameInit /\ CallInit /\ PhaseIdle

CallsSpec == CallsInit /\ [][CallNext]_vars

\* one pass of the loop of map_name over the responses of a phase
PhaseInit == QIdle /\ QFrameInit /\ CallIdle /\ PhaseResponsesInit

PhaseSpec == PhaseInit /\ [][PhaseNext]_vars

\* one pass of the loop over responses that may hold "." as NS rdata
InvalidNsInit == QIdle /\ QFrameInit /\ CallIdle /\ PhaseResponsesFrom(InvalidNsRecords)

InvalidNsSpec == InvalidNsInit /\ [][PhaseNext]_vars

\* ------------------------------------------------------------------------
\* Properties of the query engine
\* ------------------------------------------------------------------------

\* callers that ran dns_request for key k and have not cached its response
Leaders(k) == {c \in Callers : qkey[c] = k /\ qpc[c] \in {"lead", "raised"}}

\* C1: in-flight coalescing. While a query key is in flight exactly one caller
\* runs dns_request for it; a caller that found the key in flight waits on the
\* event of that caller and sends no request of its own.
InFlightCoalescing ==
    /\ \A k \in active_queries : Cardinality(Leaders(k)) = 1
    /\ \A c \in Callers :
           qrole[c] = "waiter" =>
               /\ \A r \in Reqs : r[1] = c => (rsent[r] = 0 /\ rpc[r] = "none")
               /\ qpc[c] = "wait" => Leaders(qkey[c]) # {}

\* a leader has sent its request while another caller waits on the same key
InFlightCoalescingWitness ==
    \E c1, c2 \in Callers :
        /\ qpc[c1] = "lead" /\ qpc[c2] = "wait" /\ qkey[c1] = qkey[c2]
        /\ rsent[<<c1, 1>>] = 1
        /\ requests_sent = 1

\* C5: cancel on block. In the step that adds a nameserver to
\* timeout_nameservers every request to it that is still outstanding is
\* cancelled, and no request for it remains in active_requests.
CancelOnBlock ==
    [][\A ns \in Nameservers :
          (ns \notin timeout_nameservers /\ ns \in timeout_nameservers') =>
              /\ \A r \in Reqs :
                     (rpc'[r] = "inflight" /\ qkey'[r[1]][2] = ns) => cancelled'[r]
              /\ active_requests'[ns] = <<>>]_vars

\* C6: no request after block. Once a nameserver is in timeout_nameservers no
\* request is sent to it, and a query that then runs dns_request for it returns
\* the timeout response.
NoRequestAfterBlock ==
    [][/\ \A r \in Reqs :
              (rpc[r] # "none" /\ NsOf(r) \in timeout_nameservers) => rsent'[r] = rsent[r]
       /\ \A c \in Callers :
              (qpc[c] = "idle" /\ qrole'[c] = "leader"
                  /\ qkey'[c][2] \in timeout_nameservers) =>
                  (qpc'[c] = "done" /\ qret'[c].rcodes = ("timeout" :> PyTrue))]_vars

\* requests between concurrent_request_limiter.acquire() and release()
Open == {r \in Reqs : rpc[r] = "inflight"}

\* C7: global concurrency bound. At most MAX_CONCURRENT_REQUESTS requests are
\* sent and not yet completed, and the semaphore counts the free permits.
ConcurrencyBound ==
    /\ Cardinality(Open) <= MAX_CONCURRENT_REQUESTS
    /\ sem = MAX_CONCURRENT_REQUESTS - Cardinality(Open)

\* every permit is taken and a further send_request waits for one
ConcurrencyBoundWitness ==
    /\ Cardinality(Open) = MAX_CONCURRENT_REQUESTS
    /\ \E r \in Reqs : rpc[r] = "sem"

\* the requests whose send_request leaves the try block in this step
Leaving == {r \in Open : rpc'[r] # "inflight" \/ rsent'[r] > rsent[r]}

\* the requests whose send_request acquires the semaphore in this step
Acquiring == {r \in Reqs : rsent'[r] > rsent[r]}

\* C35: the semaphore is always released. A send_request that acquired the
\* semaphore releases it once when its request ends, whether with a
\* response, a refusal, a timeout or a cancellation, and before the retry it
\* starts acquires it again; when no request is in flight every permit of
\* MAX_CONCURRENT_REQUESTS is available.
SemaphoreReleased ==
    [][/\ sem' = sem + Cardinality(Leaving) - Cardinality(Acquiring)
       /\ Open' = {} => sem' = MAX_CONCURRENT_REQUESTS]_vars

\* no request is in flight and every permit is back, after a request was
\* retried after a timeout, its nameserver was blocked and the request of
\* another send_request was cancelled
SemaphoreReleasedWitness ==
    /\ Open = {}
    /\ sem = MAX_CONCURRENT_REQUESTS
    /\ timeout_nameservers # {}
    /\ \E r \in Reqs : rsent[r] >= 2 /\ rpc[r] = "done"
    /\ \E r \in Reqs : rpc[r] = "raised"

\* C8 as stated: a request is sent once and re-sent at most REQUEST_RETRIES times.
RetryBoundAsClaimed == \A r \in Reqs : rsent[r] <= 1 + REQUEST_RETRIES

\* C8 amended: a request is sent once and re-sent at most REQUEST_RETRIES + 1
\* times (with retries = 1 .. REQUEST_RETRIES + 1); when the last of these
\* attempts ends without a response the nameserver is blocked and send_request
\* returns the timeout response.
RetryBound ==
    \A r \in Reqs :
        /\ rsent[r] <= 2 + REQUEST_RETRIES
        /\ (rsent[r] = 2 + REQUEST_RETRIES /\ rpc[r] = "done"
                /\ rresp[r] = TimeoutResponse) => NsOf(r) \in timeout_nameservers

\* a request has used every retry, its nameserver is blocked and it returned
\* the timeout response
RetryBoundWitness ==
    \E r \in Reqs :
        /\ rsent[r] = 2 + REQUEST_RETRIES
        /\ rpc[r] = "done" /\ rresp[r] = TimeoutResponse
        /\ NsOf(r) \in timeout_nameservers

\* C9: query determinism. A call on a key whose last call returned a value,
\* with no eviction of the key since that call started, returns that value in
\* its first step, from the cache, and no request is sent.
QueryDeterminism ==
    [][\A c \in Callers :
          (qpc[c] = "idle" /\ qpc'[c] # "idle" /\ lastRet[qkey'[c]] # NoneValue) =>
              /\ qpc'[c] = "done" /\ qrole'[c] = "hit"
              /\ qret'[c] = lastRet[qkey'[c]]
              /\ requests_sent' = requests_sent /\ rpc' = rpc]_vars

\* a leader and a later caller answered from the cache returned the same value
\* with one request sent
QueryDeterminismWitness ==
    \E c1, c2 \in Callers :
        /\ qrole[c1] = "leader" /\ qrole[c2] = "hit"
        /\ qpc[c1] = "done" /\ qpc[c2] = "done"
        /\ qkey[c1] = qkey[c2] /\ qret[c1] = qret[c2]
        /\ rsent[<<c1, 1>>] = 1 /\ requests_sent = 1

\* C10: waiters see the cached value. A caller that waited on an in-flight
\* query returns the QueryResponse stored by the leader, never None.
WaitersSeeCachedValue ==
    \A c \in Callers : (qrole[c] = "waiter" /\ qpc[c] = "done") => qret[c] # NoneValue

\* ------------------------------------------------------------------------
\* Properties of the rate limiter
\* ------------------------------------------------------------------------

\* the tasks run admitted at a time in [t, t + ACTION_WINDOW)
AdmittedIn(t) ==
    {k \in Tasks : tpc[k] = "admitted" /\ admitTime[k] \in t..(t + ACTION_WINDOW - 1)}

\* C2 as stated: every interval of length action_window, starting at any
\* instant, contains at most max_actions admissions.
SlidingWindowLimit ==
    \A t \in 0..MaxTime :
        Cardinality(AdmittedIn(t)) <= rl.max_actions_per_window

\* C2 amended: between two resets of the window run admits at most
\* max_actions tasks, and since a reset comes no sooner than action_window
\* after the admission that started its timer, an interval of length
\* action_window contains at most 2 * max_actions - 1 admissions.
FixedWindowLimit ==
    /\ Cardinality(sinceReset) <= rl.max_actions_per_window
    /\ rl.current_actions_per_window = Cardinality(sinceReset)
    /\ \A t \in 0..MaxTime :
           Cardinality(AdmittedIn(t)) <= 2 * rl.max_actions_per_window - 1

\* an interval of length action_window holds more than max_actions
\* admissions, the last of them after a reset
FixedWindowLimitWitness ==
    /\ \E t \in 0..MaxTime : Cardinality(AdmittedIn(t)) > rl.max_actions_per_window
    /\ sinceReset # {}
    /\ \E k \in Tasks : tpc[k] = "admitted" /\ k \notin sinceReset

\* a task is suspended in ratelimit_reset.wait() or the window counter is
\* above zero
WindowBusy == (\E t \in Tasks : tpc[t] = "rlwait") \/ rl.current_actions_per_window > 0

\* at most one reset_limit task is pending, and one is while the window is busy
ResetPending == reset_tasks <= 1 /\ (WindowBusy => reset_tasks = 1)

\* C32: one reset timer per busy period. At most one reset_limit task is
\* pending at any time; one is pending whenever a task is suspended waiting
\* for the window or the window counter is above zero; and the step in which
\* reset_limit ends its sleep sets the window counter to zero.
OneResetTimer ==
    [][/\ ResetPending
       /\ ResetPending'
       /\ reset_tasks' < reset_tasks => rl'.current_actions_per_window = 0]_vars

\* a second reset_limit task is pending, with a task suspended on the window
\* it will reset
OneResetTimerWitness ==
    /\ reset_tasks = 1
    /\ \E t \in Tasks : tpc[t] = "rlwait"
    /\ rl.current_actions_per_window > 0
    /\ \E k \in Tasks : tpc[k] = "admitted" /\ k \notin sinceReset

\* x comes before y in the sequence q
Before(q, x, y) ==
    \E i, j \in 1..Len(q) : i < j /\ q[i] = x /\ q[j] = y

\* the tasks run suspended and has not admitted since
StillSuspended == {k \in Tasks : InSeq(suspended, k) /\ tpc[k] # "admitted"}

\* C33: FIFO admission of waiters. run admits the tasks it suspended in the
\* order in which it suspended them, and it admits no task, whether it was
\* suspended later or never, while a task suspended earlier is not yet admitted.
FifoAdmission ==
    [][\A t \in Tasks :
           (tpc[t] # "admitted" /\ tpc'[t] = "admitted") =>
               \A k \in StillSuspended \ {t} :
                   InSeq(suspended, t) /\ Before(suspended, t, k)]_vars

\* C34: rate limiter liveness. With max_actions >= 1 every task that has
\* called run is eventually admitted and run returns the result of its
\* action, however many tasks call run and also when the action of an
\* admitted task calls run for a retry; and no task is suspended on the
\* window while no reset_limit task is pending.
LimiterLiveness ==
    /\ \A t \in Tasks : (tpc[t] # "new") ~> (tpc[t] = "admitted" /\ t \in returned)
    /\ []((\E t \in Tasks : tpc[t] = "rlwait") => reset_tasks > 0)

\* every task has returned, among them tasks run had suspended and a retry
\* submitted by the action of an admitted task
LimiterLivenessWitness ==
    /\ rl.max_actions_per_window >= 1
    /\ returned = Tasks
    /\ Len(suspended) >= 2
    /\ \E t \in Tasks : submitted_by[t] # 0 /\ InSeq(suspended, t)

\* ------------------------------------------------------------------------
\* Properties of a crawl
\* ------------------------------------------------------------------------

\* C3: a crawl never raises. get_host_dependencies ends by returning a
\* summary, whatever the nameservers answer, also when a nested map_name call
\* reaches the NXDOMAIN consensus of the parent phase.
CrawlNeverRaises == wresult # "raised"

\* C4: crawl termination under cyclic delegation. The recursion of map_name
\* and _parse_records ends for every zone configuration, and the two-phase
\* loop of map_name is entered at most once for each name.
CrawlTerminates ==
    /\ <>(wresult \in {"returned", "raised"})
    /\ [](\A n \in AllNames : loops[n] <= 1)

\* ------------------------------------------------------------------------
\* Properties of the LRU cache
\* ------------------------------------------------------------------------

\* C19: LRU eviction. The cache never holds more than its capacity; a call
\* drops at most one key, and the key it drops is the one whose last
\* successful get or set is the oldest of the keys held; a get of a key that
\* is held returns its value and makes it the most recent; a get of a key
\* that is not held returns None and changes no entry.
LRUEviction ==
    [][/\ Len(lru') <= CacheCapacity
       /\ Cardinality(KeysOf(lru) \ KeysOf(lru')) <= 1
       /\ \A k \in KeysOf(lru) \ KeysOf(lru') :
              \A j \in KeysOf(lru) : used[k] <= used[j]
       /\ (cret'.op = "get" /\ has(lru, cret'.key)) =>
              /\ cret'.value = LookUp(lru, cret'.key)
              /\ lru'[Len(lru')] = <<cret'.key, cret'.value>>
              /\ KeysOf(lru') = KeysOf(lru)
       /\ (cret'.op = "get" /\ ~has(lru, cret'.key)) =>
              /\ cret'.value = NoneValue
              /\ lru' = lru]_vars

\* a set evicted a key after a get had promoted another one
LRUEvictionWitness ==
    /\ cret.op = "set" /\ cret.evicted # {}
    /\ cret.hits > 0
    /\ Len(lru) = CacheCapacity

\* C36: an update keeps the other entries. LRUCache.set(k, v) with k held
\* replaces the value of k, makes k the most recent entry and leaves every
\* other entry in the cache, also when the cache is at full capacity.
UpdateKeepsEntries ==
    [][(cret'.op = "set" /\ has(lru, cret'.key)) =>
           /\ lru'[Len(lru')] = <<cret'.key, cret'.value>>
           /\ \A i \in 1..Len(lru) :
                  lru[i][1] # cret'.key => \E j \in 1..Len(lru') : lru'[j] = lru[i]]_vars

\* ------------------------------------------------------------------------
\* Properties of the exit of the PyDNS scope
\* ------------------------------------------------------------------------

\* C20: shutdown drains everything. When PyDNS.__aexit__ has returned, no
\* task created by the engine or by a limiter is pending, every limiter has
\* been drained, and the error of every task that failed has been logged.
ShutdownDrains ==
    xpc = "closed" =>
        /\ \A t \in DOMAIN bg : bg[t] # "pending"
        /\ \A ns \in DOMAIN nameserver_ratelimiters :
               PendingIn(rl_awaitable_list[ns]) = {}
        /\ \A t \in DOMAIN bg : bg[t] = "failed" => t \in logged
\* ------------------------------------------------------------------------
\* Properties of the node graph
\* ------------------------------------------------------------------------

\* the xids some edge of the node leads to
Successors(S, n) == {e[2] : e \in EdgesOf(S, n)}

\* C11: graph uniqueness. After any sequence of create_node, add and merge
\* operations on the root NodeList it holds one node per xid, under the xid
\* of that node; every node create_node returned is the object the list
\* holds for its xid, so what is set through it is set on the stored node;
\* and create_node for an xid that was present returns an object that
\* existed before the call.
GraphUniqueness ==
    LET d == graph.dicts[graph.lists[RootList]]
    IN  /\ \A i, j \in 1..Len(d) : d[i][1] = d[j][1] => i = j
        /\ \A i \in 1..Len(d) : d[i][1] = xid(graph.nodes[d[i][2]])
        /\ \A h \in handles :
               /\ contains(graph, RootList, xid(graph.nodes[h]))
               /\ Stored(graph, RootList, xid(graph.nodes[h])) = h
        /\ (gop.op = "create_node" /\ gop.list = RootList /\ gop.present) =>
               gop.node <= gop.before

\* after a merge create_node returned the stored node of an xid that was
\* present, and the flag set through an earlier handle is on it
GraphUniquenessWitness ==
    /\ gop.op = "create_node" /\ gop.list = RootList /\ gop.present
    /\ graph.lists[OtherList] = graph.lists[RootList]
    /\ graph.nodes[gop.node].is_hazardous
    /\ Len(graph.dicts[graph.lists[RootList]]) >= 2

\* C14: cycle-safe merge. Every NodeList.add and NodeList.merge ends: the
\* calls of add nest no deeper than one level per xid of the heap and one
\* more, no dict changes under a loop that iterates it, and no xid that is
\* in the merged-xid set a call got is merged by that call.
CycleSafeMerge ==
    /\ ~gop.overrun
    /\ ~gop.raised
    /\ ~gop.remerged

\* a node was merged with itself while two nodes trusted each other
CycleSafeMergeWitness ==
    /\ gop.op = "add" /\ gop.present
    /\ Stored(graph, RootList, xid(graph.nodes[gop.node])) = gop.node
    /\ \E a, b \in 1..Len(graph.nodes) :
           /\ a # b
           /\ xid(graph.nodes[b]) \in Successors(graph, a)
           /\ xid(graph.nodes[a]) \in Successors(graph, b)
           /\ xid(graph.nodes[a]) \in Successors(graph, gop.node)
    /\ gop.calls >= 4

\* the nodes the root NodeList of the crawl holds
GraphNodes == {graph.dicts[graph.lists[RootList]][i][2] :
                  i \in 1..Len(graph.dicts[graph.lists[RootList]])}

\* the step keeps what the node n had: its flags, its misconfiguration tags
\* and its edges
KeepsNode(n) ==
    /\ n <= Len(graph'.nodes)
    /\ xid(graph'.nodes[n]) = xid(graph.nodes[n])
    /\ graph.nodes[n].is_hazardous => graph'.nodes[n].is_hazardous
    /\ graph.nodes[n].is_misconfigured => graph'.nodes[n].is_misconfigured
    /\ graph.nodes[n].is_empty_nonterminal => graph'.nodes[n].is_empty_nonterminal
    /\ graph.nodes[n].is_public_suffix => graph'.nodes[n].is_public_suffix
    /\ graph.nodes[n].misconfigurations \subseteq graph'.nodes[n].misconfigurations
    /\ EdgesOf(graph, n) \subseteq EdgesOf(graph', n)

\* C12: merge monotonicity. No step of a crawl takes a flag, a
\* misconfiguration tag or a trust edge away from a node of its graph.
MergeMonotonicity ==
    [][crawls' = crawls => \A n \in GraphNodes : KeepsNode(n)]_vars

\* the parent zone of a hostname: the registrable domain of a name below
\* one, the public suffix of a registrable domain, the name without its
\* first label above that
ParentZone(name) ==
    IF extract(name).subdomain # <<>> THEN extract(name).domain \o extract(name).suffix
    ELSE IF extract(name).domain # <<>> THEN extract(name).suffix
    ELSE Tail(name)

\* C13: parent closure. In every state of a crawl every node of the graph
\* that is no address, not the root and not a single label has the node of
\* its parent zone in the graph and a provisioning edge to it.
ParentClosure ==
    \A n \in GraphNodes :
        (/\ graph.nodes[n].type \notin {"ipv4", "ipv6"}
         /\ Len(graph.nodes[n].name) > 1) =>
            LET p == ParentZone(graph.nodes[n].name)
            IN  /\ contains(graph, RootList, <<infer_node_type(p, FALSE), p>>)
                /\ <<"provisioning", <<infer_node_type(p, FALSE), p>>>> \in EdgesOf(graph, n)

\* a crawl returned with a graph that holds a subdomain, a nameserver and
\* the nodes above them
ParentClosureWitness ==
    /\ wresult = "returned"
    /\ \E n \in GraphNodes : graph.nodes[n].type = "subdomain"
    /\ \E n \in GraphNodes :
           graph.nodes[n].type = "nameserver" /\ Len(graph.nodes[n].name) = 3
    /\ Cardinality(GraphNodes) >= 8

\* pass i of the loop of map_name has handled every response
PhaseEnds(i) ==
    /\ wresult = "running" /\ stack # <<>>
    /\ Top.kind = "map_name" /\ Top.pc = "process"
    /\ Top.count > Len(Top.ip_list)
    /\ Top.i = i

\* C15: parent-phase hazard classification. When the parent phase of a name
\* ends with a response, only NXDOMAIN responses, no NS set and the name
\* not recorded as non-hazardous, the node of a name whose last label is
\* not numeric is marked is_hazardous and hazardous_domains holds a summary
\* for the name; the node of a name whose last label is numeric is marked
\* misconfigured with the tag ip_ns_records and is not marked hazardous.
ParentPhaseHazard ==
    [][(PhaseEnds(0) /\ NxdomainConsensus(Top) /\ Top.name # RootName) =>
          IF isdigit(Top.name[Len(Top.name)])
          THEN /\ graph'.nodes[Top.current_node].is_misconfigured
               /\ "ip_ns_records" \in graph'.nodes[Top.current_node].misconfigurations
               /\ ~graph'.nodes[Top.current_node].is_hazardous
          ELSE /\ graph'.nodes[Top.current_node].is_hazardous
               /\ \E j \in 1..Len(hazardous_domains') :
                      hazardous_domains'[j].name = Top.name]_vars

\* what the step does to a node whose child phase ends without nameservers:
\* the mark, the tag, one summary per response of the phase, no hazard mark
MarkedMissingNS ==
    /\ graph'.nodes[Top.current_node].is_misconfigured
    /\ "missing_ns_records" \in graph'.nodes[Top.current_node].misconfigurations
    /\ ~graph'.nodes[Top.current_node].is_hazardous
    /\ Len(misconfigured_domains'["missing_ns_records"]) =
           Len(misconfigured_domains["missing_ns_records"]) + Len(Top.query_response_list)
    /\ \A j \in 1..Len(Top.query_response_list) :
           LET q == misconfigured_domains'["missing_ns_records"][
                        Len(misconfigured_domains["missing_ns_records"]) + j]
           IN  /\ q.name = Top.name
               /\ q.nameserver = Top.query_response_list[j].nameserver
               /\ q.rcodes = Top.query_response_list[j].rcodes

CrawlBegins ==
    /\ wresult = "running"
    /\ Len(stack) = 1
    /\ Top.kind = "map_name" /\ Top.pc = "enter"

\* C17: per-crawl state. When a call of get_host_dependencies starts on a
\* resolver, past_resolutions and active_resolutions are empty and the glue
\* cache is the root-server table.
PerCrawlState ==
    CrawlBegins =>
        /\ past_resolutions = <<>>
        /\ active_resolutions = {}
        /\ nameserver_ip = ROOT_SERVERS

\* C18: summary determinism across runs. Two calls of get_host_dependencies
\* for the same target on one resolver, answered alike by the nameservers,
\* return equal summaries.
SummaryDeterminism ==
    \A i, j \in 1..Len(summaries) :
        summaries[i].query = summaries[j].query => summaries[i] = summaries[j]

\* C22: hard refusal. The send_request call whose request fails with
\* ConnectionRefused or ConnectionReset puts the nameserver into the blocked
\* set, sends nothing more and returns the timeout response; no step takes a
\* nameserver out of the blocked set.
HardRefusal ==
    [][/\ timeout_nameservers \subseteq timeout_nameservers'
       /\ \A r \in Reqs :
              Refused(r) =>
                  /\ NsOf(r) \in timeout_nameservers'
                  /\ rpc'[r] = "done"
                  /\ rresp'[r] = TimeoutResponse
                  /\ rsent'[r] = rsent[r]
                  /\ requests_sent' = requests_sent
                  /\ retries'[r] = retries[r]]_vars

\* a request that was refused at its first attempt has returned
HardRefusalWitness ==
    \E r \in Reqs :
        /\ rpc[r] = "done"
        /\ rsent[r] = 1
        /\ retries[r] = 0
        /\ rresp[r] = TimeoutResponse
        /\ NsOf(r) \in timeout_nameservers

\* C23: every query eventually returns. A key is in active_queries only
\* while its leader is still running dns_request, and a caller is suspended on
\* a key only while that leader is running: once the leader has finished, on
\* any path, the key is gone and its waiters are released.
LeaderFinishReleases ==
    /\ \A k \in active_queries :
           \E c \in Callers : qkey[c] = k /\ qpc[c] = "lead"
    /\ \A c \in Callers :
           qpc[c] = "wait" =>
               \E d \in Callers : qkey[d] = qkey[c] /\ qpc[d] = "lead"

\* ------------------------------------------------------------------------
\* Properties of the StringReferenceCache
\* ------------------------------------------------------------------------

\* the positions of the cache whose value has string form s
HoldersOf(s) == {i \in 1..Len(ref_cache) : str(ref_cache[i][2]) = s}

\* C21: reference counting. After any sequence of set calls the record of a
\* string form exists exactly when a key of the cache maps to a value of that
\* form, its reference count is the number of such keys, and these keys hold
\* the canonical object of the record.
ReferenceCounting ==
    \A s \in {str(v) : v \in RefObjects} :
        /\ s \in DOMAIN str_to_reference <=> HoldersOf(s) # {}
        /\ s \in DOMAIN str_to_reference =>
               /\ str_to_reference[s].references = Cardinality(HoldersOf(s))
               /\ \A i \in HoldersOf(s) : ref_cache[i][2] = str_to_reference[s].value

\* ------------------------------------------------------------------------
\* Properties of a query call
\* ------------------------------------------------------------------------

\* the record types of a call, as a set
TypesOf(a) == {a.record_types[j] : j \in 1..Len(a.record_types)}

\* C24: canonical query key. Two calls with the same domain, the same
\* nameserver and the same set of record types, in whatever order, have the
\* same key, and the second call is answered from the cache entry of the
\* first.
CanonicalQueryKey ==
    (/\ call_step = 2
     /\ call_args[1].domain = call_args[2].domain
     /\ call_args[1].nameserver = call_args[2].nameserver
     /\ TypesOf(call_args[1]) = TypesOf(call_args[2]))
    => /\ query_args_str(call_args[1].domain, call_args[1].nameserver,
                         call_args[1].record_types)
          = query_args_str(call_args[2].domain, call_args[2].nameserver,
                           call_args[2].record_types)
       /\ call_hit

\* C25: shape of a timed-out response. The rcodes of a QueryResponse that
\* query returned have one entry per requested record type and no "timeout"
\* key, or the single key "timeout"; when a request of the query timed out
\* the response has no records and rcodes holds only "timeout".
TimeoutResponseShape ==
    \A i \in 1..call_step :
        LET r == call_value[i]
            a == call_args[i]
        IN  /\ \/ DOMAIN r.rcodes = TypesOf(a)
               \/ DOMAIN r.rcodes = {"timeout"}
            /\ (\E t \in TypesOf(a) : call_responses[t] = TimeoutRcode)
                   => (r.data = {} /\ DOMAIN r.rcodes = {"timeout"})

\* ------------------------------------------------------------------------
\* Properties of the phases of map_name
\* ------------------------------------------------------------------------

\* line 476: "timeout" in query_response.rcodes
TimedOut(response) == "timeout" \in DOMAIN response.rcodes

\* the frame of the map_name call whose phase is being processed, between
\* the gather of line 463 and the end of the pass
InPhase ==
    /\ wresult = "running" /\ stack # <<>>
    /\ \/ Top.kind = "map_name" /\ Top.pc = "process"
       \/ Top.kind = "_parse_records" /\ Top.pc = "loop" /\ Top.current_name_ns = {}

PhaseFrame == IF Top.kind = "map_name" THEN Top ELSE stack[Len(stack) - 1]

\* the flags and tags of a node
NodeMarks(S, n) ==
    <<S.nodes[n].is_hazardous, S.nodes[n].is_misconfigured,
      S.nodes[n].is_empty_nonterminal, S.nodes[n].misconfigurations>>

\* C26: timeouts change no flag. While map_name processes a phase in which
\* nameservers were queried and every one of them timed out, and when that
\* phase ends, the flags and misconfiguration tags of the current node stay
\* as they are and hazardous_domains and misconfigured_domains get nothing.
TimeoutsChangeNoFlag ==
    [][(/\ InPhase
        /\ PhaseFrame.ip_list # <<>>
        /\ \A j \in 1..Len(PhaseFrame.query_response_list) :
               TimedOut(PhaseFrame.query_response_list[j])) =>
          /\ NodeMarks(graph', PhaseFrame.current_node)
                 = NodeMarks(graph, PhaseFrame.current_node)
          /\ hazardous_domains' = hazardous_domains
          /\ misconfigured_domains' = misconfigured_domains]_vars

\* a response without records and with rcode NOERROR
NoerrorEmpty(response) ==
    /\ response.data = {}
    /\ ~TimedOut(response)
    /\ response.rcodes["NS"] = NOERROR

\* C27: empty non-terminal marking. A step marks a node is_empty_nonterminal
\* only as the end of a phase of map_name on that node in which a nameserver
\* answered, every answer was NOERROR without records, and new_auth_ns is
\* not empty.
EmptyNonterminalMarking ==
    [][\A n \in GraphNodes :
          (~graph.nodes[n].is_empty_nonterminal
              /\ n \in DOMAIN graph'.nodes
              /\ graph'.nodes[n].is_empty_nonterminal) =>
              /\ wresult = "running" /\ stack # <<>>
              /\ Top.kind = "map_name" /\ Top.pc = "process"
              /\ Top.count > Len(Top.ip_list)
              /\ Top.current_node = n
              /\ \E j \in 1..Len(Top.query_response_list) :
                     ~TimedOut(Top.query_response_list[j])
              /\ \A j \in 1..Len(Top.query_response_list) :
                     \/ TimedOut(Top.query_response_list[j])
                     \/ NoerrorEmpty(Top.query_response_list[j])
              /\ Top.new_auth_ns.keys # {}]_vars

\* C29: when the full-target retry happens. While map_name handles the
\* response of an entry of ip_list, it queries the same address again with
\* the original target name exactly when the response is NOERROR without
\* records and name differs from the original target; after a response
\* without records and with SERVFAIL it sends that nameserver nothing more
\* in the phase.
FullTargetRetry ==
    [][(/\ wresult = "running" /\ stack # <<>>
        /\ Top.kind = "map_name" /\ Top.pc = "process"
        /\ Top.count <= Len(Top.ip_list)) =>
          ((Len(stack'[Len(stack)].query_response_list)
                = Len(Top.query_response_list) + 1)
             <=> (/\ NoerrorEmpty(answers[<<Top.name, Top.ip_list[Top.count][2]>>])
                  /\ Top.name # Top.original_name))]_vars

\* C30: the cycle set is released. As long as no crawl of the resolver has
\* ended with an exception, a registrable form is in active_resolutions only
\* while the call of map_name that _parse_records started for a nameserver
\* of that form has not returned; when no resolution is in progress
\* active_resolutions is empty.
CycleSetReleased ==
    (/\ wresult \in {"idle", "running", "returned"}
     /\ Len(summaries) + (IF wresult = "running" THEN 1 ELSE 0) = crawls) =>
        \A sld \in active_resolutions :
            \E j \in 1..Len(stack) :
                /\ stack[j].kind = "_parse_records"
                /\ stack[j].pc = "map_name"
                /\ Registrable(extract(stack[j].ns_name)) = sld

\* the nameserver the parser takes from current_name_ns in this step
ParsedNow ==
    Top.current_name_ns \ stack'[Len(stack)].current_name_ns

RootTableReadOnly == root_servers = ROOT_SERVERS

\* the loop of the running map_name call is at the end of a pass
AtPhaseEnd ==
    /\ wresult = "running" /\ stack # <<>>
    /\ Top.kind = "map_name" /\ Top.pc = "process"
    /\ Top.count > Len(Top.ip_list)

\* C39: result after a child-phase stop. When the loop stops in phase
\* child on an NXDOMAIN consensus, map_name stores in past_resolutions[name]
\* the NS set obtained in phase parent, which is not empty; and whenever
\* map_name ends, the value its caller goes on with is the value stored.
ChildStopKeepsParentResult ==
    [][/\ (AtPhaseEnd /\ Top.i = 1 /\ NxdomainConsensus(Top)) =>
              /\ Top.name \in DOMAIN past_resolutions'
              /\ past_resolutions'[Top.name] = Top.auth_ns
              /\ past_resolutions'[Top.name].keys # {}
       /\ (/\ AtPhaseEnd
           /\ Len(stack') = Len(stack) - 1
           /\ stack' # <<>>
           /\ stack'[Len(stack')].kind = "map_name") =>
              stack'[Len(stack')].auth_ns = past_resolutions'[Top.name]]_vars

\* the unprefixed sets of names and addresses of the dependencies dict
Unprefixed == {<<"", l>> : l \in {"ns", "ipv4", "ipv6", "tld", "sld"}}

\* this step parses the records returned for a name that has no registrable
\* domain: map_name hands them to _parse_records, or _parse_records handles
\* one of the nameservers found in them
ParsesSuffixRecords ==
    /\ wresult = "running" /\ stack # <<>>
    /\ \/ /\ Top.kind = "map_name" /\ Top.pc = "process"
          /\ Top.prefix = "ps_"
          /\ Len(stack') = Len(stack) + 1
          /\ stack'[Len(stack')].kind = "_parse_records"
          /\ extract(stack'[Len(stack')].current_name).domain = <<>>
       \/ /\ Top.kind = "_parse_records"
          /\ Top.prefix = "ps_"
          /\ extract(Top.current_name).domain = <<>>

\* C38: public-suffix accounting. While map_name resolves a name that has
\* no registrable domain, with prefix "ps_", the dependencies map_name and
\* the parser record for it go into the ps_-prefixed sets: the sets ns, ipv4,
\* ipv6, tld and sld are left as they are.
PublicSuffixAccounting ==
    [][ParsesSuffixRecords =>
           \A label \in Unprefixed : dependencies'[label] = dependencies[label]]_vars

\* the responses of the phase whose records hold "." as NS rdata
InvalidNsResponses ==
    {j \in 1..Len(phase_responses) :
        NSRecord(PhaseName, RootName) \in phase_responses[j].data}

\* C37: invalid NS rdata. When records of the zone hold an NS record whose
\* rdata is ".", the parser maps "." to an empty set of addresses, and when
\* the loop has handled the responses invalid_ns_record holds one summary for
\* the zone, however many nameserver addresses returned the record.
InvalidNsRecordOnce ==
    (phase_count > Len(phase_ip_list) /\ InvalidNsResponses # {}) =>
        /\ RootName \in phase_new_auth_ns.keys
        /\ IPsOf(phase_new_auth_ns.ips, RootName) = {}
        /\ Len(phase_invalid_ns_record) = 1

\* the orders in which the entries of ip_list can be taken
PhaseOrders ==
    {o \in [1..Len(phase_ip_list) -> 1..Len(phase_ip_list)] :
        \A j, k \in 1..Len(phase_ip_list) : o[j] = o[k] => j = k}

\* C28: the phase result is an order-independent union. When the loop has
\* handled every response of the phase, new_auth_ns maps each nameserver to
\* all the addresses the responses gave for it, those parsed from records
\* and those kept from NOERROR responses without records, and every order
\* of the responses gives the same new_auth_ns.
PhaseResultIsUnion ==
    phase_count > Len(phase_ip_list) =>
        /\ phase_new_auth_ns.ips = phase_contributed
        /\ phase_new_auth_ns.keys = {p[1] : p \in phase_contributed}
        /\ \A o \in PhaseOrders :
               PhaseRun([new_auth_ns |-> EmptyNS, nameserver_ip |-> phase_cache0,
                         contributed |-> {}],
                        o, 1, phase_responses).new_auth_ns = phase_new_auth_ns

====
